---------------------------- MODULE Spec2Model ----------------------------
(***************************************************************************)
(* Verification model of the quizizz/cas symbolic algebra core:            *)
(* the expression model (pkg/ast), the simplifier (pkg/simplify) and the   *)
(* operations built on them.                                               *)
(*                                                                         *)
(* Expressions are records tagged by "t".  Rendered strings are sequences  *)
(* of byte codes, so that the string keys of the simplifier's maps and the *)
(* byte-wise comparisons of Normalize are computed as the code computes    *)
(* them.  big.Float values are exact rationals <<n, d>> (d > 0, lowest     *)
(* terms); the inputs are restricted to dyadic values, on which big.Float  *)
(* arithmetic at 64 or more bits of precision is exact.                    *)
(***************************************************************************)
EXTENDS Integers, Sequences, FiniteSets, TLC

(***************************************************************************)
(* Bounds of the model                                                     *)
(***************************************************************************)
\* number of bits of the model's int64 (the width is scaled down; 64 in Go)
Int64Bits == 24
\* map iteration orders tried per call: seeds 0..MaxSeed
MaxSeed == 1
\* largest magnitude of the integer leaves of the generated expressions
MaxLeaf == 3
\* numerators and denominators handed to the constructors of Rational
MaxRat == 8

(***************************************************************************)
(* Integers and exact rationals                                            *)
(***************************************************************************)
RECURSIVE Pow2(_)
Pow2(k) == IF k = 0 THEN 1 ELSE 2 * Pow2(k - 1)

RECURSIVE Pow10(_)
Pow10(k) == IF k = 0 THEN 1 ELSE 10 * Pow10(k - 1)

MaxInt64 == Pow2(Int64Bits - 1) - 1
MinInt64 == 0 - Pow2(Int64Bits - 1)

Abs(n) == IF n < 0 THEN 0 - n ELSE n

Sign(n) == IF n < 0 THEN 0 - 1 ELSE IF n > 0 THEN 1 ELSE 0

\* big.Int.GCD(nil, nil, a, b): always >= 0, GCD(a, 0) = |a|, GCD(0, 0) = 0
RECURSIVE GCD(_, _)
GCD(a, b) == IF b = 0 THEN Abs(a) ELSE GCD(Abs(b), Abs(a) % Abs(b))

\* big.Int.Div: Euclidean division (remainder >= 0); divisor nonzero
EDiv(a, b) == IF b > 0 THEN a \div b ELSE 0 - (a \div (0 - b))

\* a rational value in lowest terms with positive denominator
Rat(n, d) ==
    LET g == GCD(n, d)
        s == IF d < 0 THEN 0 - 1 ELSE 1
    IN <<s * (n \div g), s * (d \div g)>>

RInt(n) == <<n, 1>>
RAdd(a, b) == Rat(a[1] * b[2] + b[1] * a[2], a[2] * b[2])
RMul(a, b) == Rat(a[1] * b[1], a[2] * b[2])
RSign(a) == Sign(a[1])
RIsInt(a) == a[2] = 1

\* big.Float.Int64 of an integral value: saturates outside the int64 range
Int64Of(a) ==
    IF a[1] > MaxInt64 THEN MaxInt64
    ELSE IF a[1] < MinInt64 THEN MinInt64 ELSE a[1]

(***************************************************************************)
(* Byte strings                                                            *)
(***************************************************************************)
RECURSIVE DigitsOf(_)
DigitsOf(n) == IF n < 10 THEN <<48 + n>> ELSE DigitsOf(n \div 10) \o <<48 + (n % 10)>>

\* big.Int.String of a non-nil value
BigIntString(v) == IF v < 0 THEN <<45>> \o DigitsOf(0 - v) ELSE DigitsOf(v)

RECURSIVE Log2(_)
Log2(d) == IF d <= 1 THEN 0 ELSE 1 + Log2(d \div 2)

RECURSIVE PadLeft(_, _)
PadLeft(s, k) == IF Len(s) >= k THEN s ELSE PadLeft(<<48>> \o s, k)

RECURSIVE StripTrailingZeros(_)
StripTrailingZeros(s) ==
    IF Len(s) > 1 /\ s[Len(s)] = 48 THEN StripTrailingZeros(SubSeq(s, 1, Len(s) - 1)) ELSE s

RECURSIVE LeadingZeros(_)
LeadingZeros(s) == IF s # <<>> /\ s[1] = 48 THEN 1 + LeadingZeros(Tail(s)) ELSE 0

\* big.Float.Text('g', -1) of the dyadic value a = n/2^k: the shortest decimal
\* that reads back as a is its exact expansion; %e is used when the decimal
\* exponent is below -4 or at least 6, the precision %g assumes when the
\* shortest representation is asked for
FloatText(a) ==
    LET n == Abs(a[1])
        d == a[2]
        k == Log2(d)
        ip == n \div d
        fr == ((n % d) * Pow10(k)) \div d
        sg == IF a[1] < 0 THEN <<45>> ELSE <<>>
        fracDigits == IF d = 1 THEN <<>> ELSE PadLeft(DigitsOf(fr), k)
        mant == IF ip > 0 THEN StripTrailingZeros(DigitsOf(ip) \o fracDigits)
                ELSE SubSeq(fracDigits, LeadingZeros(fracDigits) + 1, Len(fracDigits))
        exp == IF ip > 0 THEN Len(DigitsOf(ip)) - 1 ELSE 0 - (LeadingZeros(fracDigits) + 1)
    IN IF n = 0 THEN <<48>>
       ELSE IF exp < 0 - 4 \/ exp >= 6
            THEN sg \o <<mant[1]>>
                 \o (IF Len(mant) > 1 THEN <<46>> \o Tail(mant) ELSE <<>>)
                 \o <<101, IF exp < 0 THEN 45 ELSE 43>> \o PadLeft(DigitsOf(Abs(exp)), 2)
       ELSE IF d = 1 THEN sg \o DigitsOf(ip)
       ELSE sg \o DigitsOf(ip) \o <<46>> \o fracDigits

\* bytes.Compare order of Go strings: s > t
RECURSIVE StrGreater(_, _)
StrGreater(s, t) ==
    IF s = <<>> THEN FALSE
    ELSE IF t = <<>> THEN TRUE
    ELSE IF s[1] # t[1] THEN s[1] > t[1]
    ELSE StrGreater(Tail(s), Tail(t))

\* the bytes of the identifiers used as variable and function names
NameBytes(name) ==
    CASE name = "x" -> <<120>>
      [] name = "y" -> <<121>>
      [] name = "z" -> <<122>>
      [] name = "sqrt" -> <<115, 113, 114, 116>>
      [] name = "ln" -> <<108, 110>>
      [] name = "sin" -> <<115, 105, 110>>
      [] name = "cos" -> <<99, 111, 115>>
      [] name = "tan" -> <<116, 97, 110>>
      [] name = "sec" -> <<115, 101, 99>>
      [] name = "csc" -> <<99, 115, 99>>
      [] name = "cot" -> <<99, 111, 116>>
      [] name = "arcsin" -> <<97, 114, 99, 115, 105, 110>>
      [] name = "arccos" -> <<97, 114, 99, 99, 111, 115>>
      [] name = "arctan" -> <<97, 114, 99, 116, 97, 110>>
      [] name = "sinh" -> <<115, 105, 110, 104>>
      [] name = "cosh" -> <<99, 111, 115, 104>>
      [] name = "tanh" -> <<116, 97, 110, 104>>
      [] name = "log" -> <<108, 111, 103>>
      [] name = "exp" -> <<101, 120, 112>>
      [] name = "abs" -> <<97, 98, 115>>
      [] name = "foo" -> <<102, 111, 111>>
      [] OTHER -> <<63>>

(***************************************************************************)
(* Expression nodes (pkg/ast)                                              *)
(***************************************************************************)
\* NewInt / NewIntFromString
NewInt(v) == [t |-> "Int", v |-> v, nil |-> FALSE]
\* the zero value &ast.Int{}: an Int whose big.Int pointer is nil
NilInt == [t |-> "Int", v |-> 0, nil |-> TRUE]
\* a Float leaf holding the value n/d
NewFloat(a) == [t |-> "Float", n |-> a[1], d |-> a[2]]
\* NewRationalPreserved: numerator and denominator stored as given
NewRationalPreserved(num, den) == [t |-> "Rational", num |-> num, den |-> den]
NewVar(name) == [t |-> "Var", name |-> name]
NewAdd(terms) == [t |-> "Add", terms |-> terms]
NewPow(base, exponent) == [t |-> "Pow", base |-> base, exponent |-> exponent]
NewFunc(name, args) == [t |-> "Func", name |-> name, args |-> args]
NewEq(left, right, eqType) == [t |-> "Eq", left |-> left, right |-> right, eqType |-> eqType]
\* a Mul literal &Mul{factors: ...}
MulOf(factors) == [t |-> "Mul", factors |-> factors]
\* the outcome of a call that aborts with a Go panic
Panic == [t |-> "Panic"]

\* a reduce that divides by the gcd and leaves the signs as they are
reduceKeepSign(r) ==
    LET gcd == GCD(r.num, r.den)
    IN NewRationalPreserved(EDiv(r.num, gcd), EDiv(r.den, gcd))

\* Rational.reduce
reduce(r) ==
    LET gcd == GCD(r.num, r.den)
        n1 == EDiv(r.num, gcd)
        d1 == EDiv(r.den, gcd)
    IN IF d1 < 0 THEN NewRationalPreserved(0 - n1, 0 - d1)
       ELSE NewRationalPreserved(n1, d1)

\* NewRational; a zero gcd makes big.Int.Div panic
NewRational(num, den) ==
    IF GCD(num, den) = 0 THEN Panic ELSE reduce(NewRationalPreserved(num, den))

\* NewRationalFromInts: copies of the two big integers, reduced
NewRationalFromInts(num, den) ==
    IF GCD(num, den) = 0 THEN Panic ELSE reduce(NewRationalPreserved(num, den))

\* the Numeric interface: Int, Float and Rational
isNumeric(e) == e.t \in {"Int", "Float", "Rational"}

\* Numeric.Eval of a non-nil leaf whose denominator is not zero
NumVal(e) ==
    CASE e.t = "Int" -> RInt(e.v)
      [] e.t = "Float" -> <<e.n, e.d>>
      [] e.t = "Rational" -> Rat(e.num, e.den)

\* NewMul: -1 * n with n a positive Int is folded into the single factor -n
NewMul(factors) ==
    IF Len(factors) = 2 /\ factors[1].t = "Int" /\ factors[2].t = "Int"
    THEN IF factors[1].nil THEN Panic
         ELSE IF factors[1].v = 0 - 1
              THEN IF factors[2].nil THEN Panic
                   ELSE IF factors[2].v > 0
                        THEN MulOf(<<NewInt(0 - Int64Of(RInt(factors[2].v)))>>)
                        ELSE MulOf(factors)
              ELSE MulOf(factors)
    ELSE MulOf(factors)

\* does the tree hold a nil Int (Clone, and so Terms/Base/Exponent, panic on it)
RECURSIVE HasNil(_)
HasNil(e) ==
    CASE e.t = "Int" -> e.nil
      [] e.t = "Add" -> \E i \in 1..Len(e.terms) : HasNil(e.terms[i])
      [] e.t = "Mul" -> \E i \in 1..Len(e.factors) : HasNil(e.factors[i])
      [] e.t = "Pow" -> HasNil(e.base) \/ HasNil(e.exponent)
      [] e.t = "Func" -> \E i \in 1..Len(e.args) : HasNil(e.args[i])
      [] e.t = "Eq" -> HasNil(e.left) \/ HasNil(e.right)
      [] OTHER -> FALSE

RECURSIVE JoinWith(_, _)
JoinWith(parts, sep) ==
    IF parts = <<>> THEN <<>>
    ELSE IF Len(parts) = 1 THEN parts[1]
    ELSE parts[1] \o sep \o JoinWith(Tail(parts), sep)

\* EqType.String
EqTypeString(et) ==
    CASE et = "EqEqual" -> <<61>>
      [] et = "EqLess" -> <<60>>
      [] et = "EqGreater" -> <<62>>
      [] et = "EqLessEqual" -> <<60, 61>>
      [] et = "EqGreaterEqual" -> <<62, 61>>
      [] et = "EqNotEqual" -> <<60, 62>>
      [] OTHER -> <<61>>

Paren(s) == <<40>> \o s \o <<41>>

\* Expr.String of every node kind
RECURSIVE String(_)
String(e) ==
    CASE e.t = "Int" -> IF e.nil THEN <<60, 110, 105, 108, 62>> ELSE BigIntString(e.v)
      [] e.t = "Float" -> FloatText(<<e.n, e.d>>)
      [] e.t = "Rational" -> BigIntString(e.num) \o <<47>> \o BigIntString(e.den)
      [] e.t = "Var" -> NameBytes(e.name)
      [] e.t = "Add" ->
           IF Len(e.terms) = 0 THEN <<48>>
           ELSE IF Len(e.terms) = 1 THEN String(e.terms[1])
           ELSE JoinWith([i \in 1..Len(e.terms) |->
                            IF i = 1 THEN String(e.terms[i])
                            ELSE <<43>> \o String(e.terms[i])], <<>>)
      [] e.t = "Mul" ->
           IF Len(e.factors) = 0 THEN <<49>>
           ELSE IF Len(e.factors) = 1 THEN String(e.factors[1])
           ELSE JoinWith([i \in 1..Len(e.factors) |->
                            IF e.factors[i].t = "Add"
                            THEN Paren(String(e.factors[i]))
                            ELSE String(e.factors[i])], <<42>>)
      [] e.t = "Pow" ->
           (IF e.base.t \in {"Add", "Mul"} THEN Paren(String(e.base)) ELSE String(e.base))
           \o <<94>> \o
           (IF e.exponent.t \in {"Add", "Mul"} THEN Paren(String(e.exponent))
            ELSE String(e.exponent))
      [] e.t = "Func" ->
           IF Len(e.args) = 0 THEN NameBytes(e.name) \o <<40, 41>>
           ELSE NameBytes(e.name)
                \o Paren(JoinWith([i \in 1..Len(e.args) |-> String(e.args[i])], <<44, 32>>))
      [] e.t = "Eq" -> String(e.left) \o EqTypeString(e.eqType) \o String(e.right)
      [] OTHER -> <<33>>

(***************************************************************************)
(* LaTeX rendering                                                         *)
(***************************************************************************)
\* strings.HasPrefix(s, "-")
StartsWithMinus(s) == Len(s) > 0 /\ s[1] = 45

LaTeXTermAlwaysPlus(i, termStr) == IF i = 1 THEN termStr ELSE <<43>> \o termStr

\* the part Add.LaTeX joins for the i-th term
LaTeXTerm(i, termStr) ==
    IF i = 1 THEN termStr
    ELSE IF StartsWithMinus(termStr) THEN termStr
    ELSE <<43>> \o termStr

\* the operator Eq.LaTeX prints
EqTypeLaTeX(et) ==
    CASE et = "EqLessEqual" -> <<92, 108, 101>>
      [] et = "EqGreaterEqual" -> <<92, 103, 101>>
      [] et = "EqNotEqual" -> <<92, 110, 101>>
      [] OTHER -> EqTypeString(et)

\* the LaTeX method of every node
RECURSIVE LaTeX(_)
LaTeX(e) ==
    CASE e.t = "Int" -> IF e.nil THEN <<60, 110, 105, 108, 62>> ELSE BigIntString(e.v)
      [] e.t = "Float" -> FloatText(<<e.n, e.d>>)
      [] e.t = "Rational" ->
           IF e.den = 1 THEN BigIntString(e.num)
           ELSE <<92, 102, 114, 97, 99, 123>> \o BigIntString(e.num) \o <<125, 123>>
                \o BigIntString(e.den) \o <<125>>
      [] e.t = "Var" -> NameBytes(e.name)
      [] e.t = "Add" ->
           IF Len(e.terms) = 0 THEN <<48>>
           ELSE IF Len(e.terms) = 1 THEN LaTeX(e.terms[1])
           ELSE JoinWith([i \in 1..Len(e.terms) |-> LaTeXTerm(i, LaTeX(e.terms[i]))], <<>>)
      [] e.t = "Mul" ->
           IF Len(e.factors) = 0 THEN <<49>>
           ELSE IF Len(e.factors) = 1 THEN LaTeX(e.factors[1])
           ELSE JoinWith([i \in 1..Len(e.factors) |->
                            IF e.factors[i].t = "Add"
                            THEN Paren(LaTeX(e.factors[i]))
                            ELSE LaTeX(e.factors[i])], <<32, 92, 99, 100, 111, 116, 32>>)
      [] e.t = "Pow" ->
           (IF e.base.t \in {"Add", "Mul"} THEN Paren(LaTeX(e.base)) ELSE LaTeX(e.base))
           \o <<94, 123>> \o LaTeX(e.exponent) \o <<125>>
      [] e.t = "Func" ->
           IF e.name = "sqrt" /\ Len(e.args) = 1
           THEN <<92, 115, 113, 114, 116, 123>> \o LaTeX(e.args[1]) \o <<125>>
           ELSE IF e.name = "log" /\ Len(e.args) = 1
           THEN <<92, 108, 111, 103, 123>> \o LaTeX(e.args[1]) \o <<125>>
           ELSE IF e.name = "ln" /\ Len(e.args) = 1
           THEN <<92, 108, 110, 123>> \o LaTeX(e.args[1]) \o <<125>>
           ELSE <<92, 109, 97, 116, 104, 114, 109, 123>> \o NameBytes(e.name) \o <<125>>
                \o Paren(JoinWith([i \in 1..Len(e.args) |-> LaTeX(e.args[i])], <<44, 32>>))
      [] e.t = "Eq" ->
           LaTeX(e.left) \o <<32>> \o EqTypeLaTeX(e.eqType) \o <<32>> \o LaTeX(e.right)
      [] OTHER -> <<33>>

(***************************************************************************)
(* Eval.  An outcome is a finite value, an infinity, an error value, an    *)
(* abort (a Go panic), or a finite value that float64 arithmetic only      *)
(* approximates ("approx": its digits are not modelled).                   *)
(***************************************************************************)
EvOk(a) == [k |-> "ok", n |-> a[1], d |-> a[2]]
EvInf(s) == [k |-> "inf", n |-> s, d |-> 0]
EvErr == [k |-> "err", n |-> 0, d |-> 0]
EvPanic == [k |-> "panic", n |-> 0, d |-> 0]
EvApprox == [k |-> "approx", n |-> 0, d |-> 0]

EvVal(r) == <<r.n, r.d>>
EvSign(r) == Sign(r.n)

\* big.Float.Add: infinities of opposite sign panic with ErrNaN
FloatAdd(x, y) ==
    CASE x.k = "inf" /\ y.k = "inf" -> IF x.n = y.n THEN x ELSE EvPanic
      [] x.k = "inf" -> x
      [] y.k = "inf" -> y
      [] x.k = "approx" \/ y.k = "approx" -> EvApprox
      [] OTHER -> EvOk(RAdd(EvVal(x), EvVal(y)))

\* big.Float.Mul: zero times an infinity panics with ErrNaN
FloatMul(x, y) ==
    CASE x.k = "inf" /\ y.k = "ok" /\ y.n = 0 -> EvPanic
      [] y.k = "inf" /\ x.k = "ok" /\ x.n = 0 -> EvPanic
      [] x.k = "inf" \/ y.k = "inf" ->
           IF x.k = "approx" \/ y.k = "approx" THEN EvInf(1)
           ELSE EvInf(EvSign(x) * EvSign(y))
      [] x.k = "approx" \/ y.k = "approx" ->
           IF (x.k = "ok" /\ x.n = 0) \/ (y.k = "ok" /\ y.n = 0)
           THEN EvOk(RInt(0)) ELSE EvApprox
      [] OTHER -> EvOk(RMul(EvVal(x), EvVal(y)))

\* big.Float.Quo(1, x): 1/0 is +Inf, 1/Inf is 0
FloatRecip(x) ==
    CASE x.k = "inf" -> EvOk(RInt(0))
      [] x.k = "approx" -> EvApprox
      [] x.n = 0 -> EvInf(1)
      [] OTHER -> EvOk(Rat(x.d, x.n))

\* the loop of Pow.Eval: result multiplied k times by baseVal
RECURSIVE FloatPowLoop(_, _, _)
FloatPowLoop(result, baseVal, k) ==
    IF k = 0 \/ result.k = "panic" THEN result
    ELSE FloatPowLoop(FloatMul(result, baseVal), baseVal, k - 1)

RECURSIVE ISqrt(_, _)
ISqrt(n, r) == IF r * r >= n THEN r ELSE ISqrt(n, r + 1)
IsSquare(n) == n >= 0 /\ ISqrt(n, 0) * ISqrt(n, 0) = n

\* math.Pow(base, exp) on float64 for a positive base and a non-integer
\* exponent: exact on a square base and a half-integer exponent
MathPow(b, x) ==
    IF b.k = "ok" /\ x.k = "ok" /\ x.d = 2 /\ IsSquare(b.n) /\ IsSquare(b.d)
    THEN LET rt == EvOk(<<ISqrt(b.n, 0), ISqrt(b.d, 0)>>)
             p == FloatPowLoop(EvOk(RInt(1)), rt, Abs(x.n))
         IN IF x.n >= 0 THEN p ELSE FloatRecip(p)
    ELSE EvApprox

\* Pow.Eval once base and exponent are evaluated
PowEval(baseVal, expVal) ==
    IF expVal.k = "ok" /\ expVal.d = 1
    THEN LET expInt == Int64Of(EvVal(expVal))
             result == FloatPowLoop(EvOk(RInt(1)), baseVal, Abs(expInt))
         IN IF expInt >= 0 THEN result
            ELSE IF result.k = "panic" THEN EvPanic ELSE FloatRecip(result)
    ELSE IF baseVal.k = "approx" \/ expVal.k = "approx" THEN EvApprox
    ELSE IF EvSign(baseVal) > 0 THEN MathPow(baseVal, expVal)
    ELSE IF EvSign(baseVal) < 0 THEN EvErr
    ELSE EvErr

\* an error value of Func.Eval: why is "arity" (number of arguments),
\* "domain" (argument outside the domain) or "unsupported" (unknown name)
EvError(why) == [k |-> "err", n |-> 0, d |-> 0, why |-> why]

\* the width of the mantissa of a float64, scaled like Int64Bits
Float64Bits == 20

\* x.Float64() > 1 or < -1: the float64 nearest to a finite x is beyond 1 in
\* magnitude when |x| > 1 + 2^-Float64Bits (the tie rounds to 1)
BeyondOne(x) ==
    IF x.k = "inf" THEN TRUE
    ELSE (Abs(x.n) - Abs(x.d)) > (Abs(x.d) \div Pow2(Float64Bits))

\* evaluateNaturalLog
evaluateNaturalLog(x) ==
    IF x.k = "approx" THEN EvApprox
    ELSE IF EvSign(x) <= 0 THEN EvError("domain")
    ELSE IF x.k = "ok" /\ x.n = 1 /\ x.d = 1 THEN EvOk(RInt(0))
    ELSE IF x.k = "inf" THEN EvInf(1)
    ELSE EvApprox

\* evaluateLog10
evaluateLog10(x) ==
    IF x.k = "approx" THEN EvApprox
    ELSE IF EvSign(x) <= 0 THEN EvError("domain")
    ELSE IF x.k = "ok" /\ x.n = 10 /\ x.d = 1 THEN EvOk(RInt(1))
    ELSE IF x.k = "ok" /\ x.n = 1 /\ x.d = 1 THEN EvOk(RInt(0))
    ELSE IF x.k = "inf" THEN EvInf(1)
    ELSE EvApprox

\* evaluateLogBase: ln(x) / ln(base); Inf / Inf panics with ErrNaN
evaluateLogBase(x, base) ==
    LET Quo(lnX, lnBase) ==
            IF lnX.k = "inf" /\ lnBase.k = "inf" THEN EvPanic
            ELSE IF lnX.k = "inf" THEN EvInf(Sign(base.n - base.d))
            ELSE IF lnBase.k = "inf" \/ (lnX.k = "ok" /\ lnX.n = 0) THEN EvOk(RInt(0))
            ELSE EvApprox
    IN IF x.k = "approx" \/ base.k = "approx" THEN EvApprox
       ELSE IF EvSign(x) <= 0 THEN EvError("domain")
       ELSE IF EvSign(base) <= 0 \/ (base.k = "ok" /\ base.n = 1 /\ base.d = 1)
            THEN EvError("domain")
       ELSE Quo(evaluateNaturalLog(x), evaluateNaturalLog(base))

\* evaluateSin, evaluateCos, evaluateTan: math.Sin of an infinity is NaN,
\* which big.NewFloat panics on; only the value at 0 is exact
evaluateTrig(name, x) ==
    IF x.k = "approx" THEN EvApprox
    ELSE IF x.k = "inf" THEN EvPanic
    ELSE IF x.n = 0 THEN EvOk(RInt(IF name = "cos" THEN 1 ELSE 0))
    ELSE EvApprox

\* evaluateArcsin, evaluateArccos: the domain is tested on x.Float64()
evaluateArc(name, x) ==
    IF x.k = "approx" THEN EvApprox
    ELSE IF BeyondOne(x) THEN EvError("domain")
    ELSE IF name = "arcsin" /\ x.n = 0 THEN EvOk(RInt(0))
    ELSE IF name = "arccos" /\ x.n = x.d THEN EvOk(RInt(0))
    ELSE EvApprox

\* evaluateArctan
evaluateArctan(x) ==
    IF x.k = "ok" /\ x.n = 0 THEN EvOk(RInt(0)) ELSE EvApprox

\* evaluateSinh, evaluateCosh, evaluateTanh
evaluateHyperbolic(name, x) ==
    IF x.k = "approx" THEN EvApprox
    ELSE IF x.k = "inf"
         THEN CASE name = "sinh" -> EvInf(x.n)
                [] name = "cosh" -> EvInf(1)
                [] OTHER -> EvOk(RInt(x.n))
    ELSE IF x.n = 0 THEN EvOk(RInt(IF name = "cosh" THEN 1 ELSE 0))
    ELSE EvApprox

\* the names Func.Eval has a case for
EvalNames ==
    {"sqrt", "abs", "ln", "log", "sin", "cos", "tan", "arcsin", "asin", "arccos", "acos",
     "arctan", "atan", "sinh", "cosh", "tanh"}

\* Func.Eval once the arguments are evaluated
FuncEval(name, argVals) ==
    IF name \notin EvalNames THEN EvError("unsupported")
    ELSE IF name = "log"
         THEN IF Len(argVals) = 1 THEN evaluateLog10(argVals[1])
              ELSE IF Len(argVals) = 2 THEN evaluateLogBase(argVals[1], argVals[2])
              ELSE EvError("arity")
    ELSE IF Len(argVals) # 1 THEN EvError("arity")
    ELSE CASE name = "sqrt" ->
                IF argVals[1].k = "approx" THEN EvApprox
                ELSE IF EvSign(argVals[1]) < 0 THEN EvPanic
                ELSE IF argVals[1].k = "inf" THEN EvInf(1)
                ELSE IF IsSquare(argVals[1].n) /\ IsSquare(argVals[1].d)
                     THEN EvOk(<<ISqrt(argVals[1].n, 0), ISqrt(argVals[1].d, 0)>>)
                ELSE EvApprox
           [] name = "abs" ->
                IF argVals[1].k = "ok" THEN EvOk(<<Abs(argVals[1].n), argVals[1].d>>)
                ELSE IF argVals[1].k = "inf" THEN EvInf(1)
                ELSE EvApprox
           [] name = "ln" -> evaluateNaturalLog(argVals[1])
           [] name \in {"sin", "cos", "tan"} -> evaluateTrig(name, argVals[1])
           [] name \in {"arcsin", "asin"} -> evaluateArc("arcsin", argVals[1])
           [] name \in {"arccos", "acos"} -> evaluateArc("arccos", argVals[1])
           [] name \in {"arctan", "atan"} -> evaluateArctan(argVals[1])
           [] name \in {"sinh", "cosh", "tanh"} -> evaluateHyperbolic(name, argVals[1])

\* big.Float.Cmp of two values that are finite or infinite: -1, 0 or 1
FloatCmp(x, y) ==
    CASE x.k = "inf" /\ y.k = "inf" -> Sign(x.n - y.n)
      [] x.k = "inf" -> x.n
      [] y.k = "inf" -> 0 - y.n
      [] OTHER -> Sign(x.n * y.d - y.n * x.d)

\* the relation of Eq.Eval applied to the outcome c of Cmp
EqHolds(et, c) ==
    CASE et = "EqEqual" -> c = 0
      [] et = "EqLess" -> c < 0
      [] et = "EqGreater" -> c > 0
      [] et = "EqLessEqual" -> c <= 0
      [] et = "EqGreaterEqual" -> c >= 0
      [] et = "EqNotEqual" -> c # 0
      [] OTHER -> FALSE

\* the first error or abort among evaluated children, in evaluation order
RECURSIVE FirstFailure(_)
FirstFailure(vals) ==
    IF vals = <<>> THEN EvOk(RInt(0))
    ELSE IF vals[1].k \in {"err", "panic"} THEN vals[1]
    ELSE FirstFailure(Tail(vals))

\* the fold of Add.Eval / Mul.Eval: stops at the first failing child
RECURSIVE FoldEval(_, _, _)
FoldEval(acc, vals, isAdd) ==
    IF acc.k = "panic" \/ vals = <<>> THEN acc
    ELSE IF vals[1].k \in {"err", "panic"} THEN vals[1]
    ELSE FoldEval(IF isAdd THEN FloatAdd(acc, vals[1]) ELSE FloatMul(acc, vals[1]),
                  Tail(vals), isAdd)

\* Expr.Eval(vars); vars is a function from variable names to values
RECURSIVE Eval(_, _)
Eval(e, vars) ==
    CASE e.t = "Int" -> IF e.nil THEN EvPanic ELSE EvOk(RInt(e.v))
      [] e.t = "Float" -> EvOk(<<e.n, e.d>>)
      [] e.t = "Rational" ->
           IF e.den # 0 THEN EvOk(Rat(e.num, e.den))
           ELSE IF e.num = 0 THEN EvPanic ELSE EvInf(Sign(e.num))
      [] e.t = "Var" ->
           IF e.name \in DOMAIN vars THEN EvOk(vars[e.name]) ELSE EvErr
      [] e.t = "Add" ->
           FoldEval(EvOk(RInt(0)), [i \in 1..Len(e.terms) |-> Eval(e.terms[i], vars)], TRUE)
      [] e.t = "Mul" ->
           FoldEval(EvOk(RInt(1)), [i \in 1..Len(e.factors) |-> Eval(e.factors[i], vars)], FALSE)
      [] e.t = "Pow" ->
           LET baseVal == Eval(e.base, vars)
           IN IF baseVal.k \in {"err", "panic"} THEN baseVal
              ELSE LET expVal == Eval(e.exponent, vars)
                   IN IF expVal.k \in {"err", "panic"} THEN expVal
                      ELSE PowEval(baseVal, expVal)
      [] e.t = "Func" ->
           LET argVals == [i \in 1..Len(e.args) |-> Eval(e.args[i], vars)]
               f == FirstFailure(argVals)
           IN IF f.k \in {"err", "panic"} THEN f ELSE FuncEval(e.name, argVals)
      [] e.t = "Eq" ->
           LET leftVal == Eval(e.left, vars)
           IN IF leftVal.k \in {"err", "panic"} THEN leftVal
              ELSE LET rightVal == Eval(e.right, vars)
                   IN IF rightVal.k \in {"err", "panic"} THEN rightVal
                      ELSE IF leftVal.k = "approx" \/ rightVal.k = "approx" THEN EvApprox
                      ELSE IF EqHolds(e.eqType, FloatCmp(leftVal, rightVal))
                           THEN EvOk(RInt(1)) ELSE EvOk(RInt(0))
      [] OTHER -> EvPanic

\* the big.Float that Var.Eval returns: a copy of the one the map holds
VarEvalCell(name) == [owner |-> "Eval", name |-> name]

\* the big.Float that the abs case of Func.Eval negates in place: a copy of
\* the value of its argument
AbsCell(cell) == [owner |-> "Eval", name |-> cell.name]

\* the variables that occur as the whole argument of an abs in e
RECURSIVE AbsOfVar(_)
AbsOfVar(e) ==
    CASE e.t = "Add" -> UNION {AbsOfVar(e.terms[i]) : i \in 1..Len(e.terms)}
      [] e.t = "Mul" -> UNION {AbsOfVar(e.factors[i]) : i \in 1..Len(e.factors)}
      [] e.t = "Pow" -> AbsOfVar(e.base) \cup AbsOfVar(e.exponent)
      [] e.t = "Eq" -> AbsOfVar(e.left) \cup AbsOfVar(e.right)
      [] e.t = "Func" ->
           IF e.name = "abs" /\ Len(e.args) = 1 /\ e.args[1].t = "Var"
           THEN {e.args[1].name}
           ELSE UNION {AbsOfVar(e.args[i]) : i \in 1..Len(e.args)}
      [] OTHER -> {}

\* the map of bindings after Eval: the sums, products and powers accumulate
\* in numbers Eval allocates, and abs is the one case that writes to a number
\* it was handed
BindingsAfterEval(e, vars) ==
    [n \in DOMAIN vars |->
        IF n \in AbsOfVar(e) /\ AbsCell(VarEvalCell(n)).owner = "bindings"
        THEN <<Abs(vars[n][1]), vars[n][2]>>
        ELSE vars[n]]

(***************************************************************************)
(* The simplifier (pkg/simplify).  Go leaves the iteration order of a map  *)
(* unspecified: every range over a map visits the keys in the order        *)
(* Permute picks from their insertion order and the seed of the call.      *)
(***************************************************************************)
RemoveAt(s, i) == SubSeq(s, 1, i - 1) \o SubSeq(s, i + 1, Len(s))

\* the seed-th order of s (factorial number system: seeds 0..n!-1 give
\* every order of n keys, seed 0 the insertion order)
RECURSIVE Permute(_, _)
Permute(s, seed) ==
    IF Len(s) <= 1 THEN s
    ELSE LET i == (seed % Len(s)) + 1
         IN <<s[i]>> \o Permute(RemoveAt(s, i), seed \div Len(s))

RECURSIVE Concat(_)
Concat(ss) == IF ss = <<>> THEN <<>> ELSE ss[1] \o Concat(Tail(ss))

AnyPanic(s) == \E i \in 1..Len(s) : s[i].t = "Panic"

\* the numeric terms of s (numeric = TRUE) or the other ones (numeric = FALSE),
\* in the order of s
SelectTerms(s, numeric) ==
    LET F[i \in 0..Len(s)] ==
          IF i = 0 THEN <<>>
          ELSE IF isNumeric(s[i]) = numeric THEN Append(F[i - 1], s[i]) ELSE F[i - 1]
    IN F[Len(s)]

\* isZero / isOne of pkg/simplify on a tree without nil Int
isZero(e) == isNumeric(e) /\ NumVal(e)[1] = 0
isOne(e) == isNumeric(e) /\ NumVal(e) = <<1, 1>>

\* the product of the values of numeric leaves
RECURSIVE NumProduct(_)
NumProduct(s) == IF s = <<>> THEN RInt(1) ELSE RMul(NumVal(s[1]), NumProduct(Tail(s)))

\* one inner loop of the bubble sort of normalizeAdd / normalizeMul
RECURSIVE BubblePass(_, _, _)
BubblePass(s, j, last) ==
    IF j > last THEN s
    ELSE IF StrGreater(String(s[j]), String(s[j + 1]))
         THEN BubblePass([s EXCEPT ![j] = s[j + 1], ![j + 1] = s[j]], j + 1, last)
         ELSE BubblePass(s, j + 1, last)

RECURSIVE BubbleSort(_, _)
BubbleSort(s, i) ==
    IF i >= Len(s) - 1 THEN s
    ELSE BubbleSort(BubblePass(s, 1, Len(s) - i - 1), i + 1)

normalizeAdd(add) ==
    IF HasNil(add) THEN Panic ELSE NewAdd(BubbleSort(add.terms, 0))

normalizeMul(mul) ==
    IF HasNil(mul) THEN Panic ELSE NewMul(BubbleSort(mul.factors, 0))

normalizePow(pow) == pow

\* a sort that swaps the elements of the slice the caller's node holds
sortedTermsInPlace(terms) == [elems |-> terms, owner |-> "caller"]

\* the slice the sort of normalizeAdd / normalizeMul swaps elements of: a new
\* slice, filled with the clones that Terms returns
sortedTerms(terms) == [elems |-> terms, owner |-> "normalize"]

\* the children the caller's sum or product holds once the sort has run
TermsAfterSort(terms) ==
    LET Swapped(slice) ==
            IF slice.owner = "caller" THEN BubbleSort(slice.elems, 0) ELSE terms
    IN Swapped(sortedTerms(terms))

\* the caller's tree once Normalize has returned or aborted (Terms aborts on
\* a nil Int before the sort starts)
TreeAfterNormalize(e) ==
    IF HasNil(e) THEN e
    ELSE IF e.t = "Add" THEN NewAdd(TermsAfterSort(e.terms))
    ELSE IF e.t = "Mul" THEN MulOf(TermsAfterSort(e.factors))
    ELSE e

\* the caller's tree after a call of the operation: Normalize, and Simplify
\* through Equal, sort; the other operations write to slices, maps and
\* numbers they allocate themselves
TreeAfter(name, e) ==
    IF name \in {"Normalize", "Simplify"} THEN TreeAfterNormalize(e) ELSE e

Normalize(expr) ==
    CASE expr.t = "Add" -> normalizeAdd(expr)
      [] expr.t = "Mul" -> normalizeMul(expr)
      [] expr.t = "Pow" -> normalizePow(expr)
      [] OTHER -> expr

\* Equal: "panic" when a Normalize aborts, else the comparison of the strings
Equal(a, b) ==
    LET Compared(normA, normB) ==
            IF normA.t = "Panic" \/ normB.t = "Panic" THEN "panic"
            ELSE IF String(normA) = String(normB) THEN "true" ELSE "false"
    IN Compared(Normalize(a), Normalize(b))

termsEqual(a, b) == String(a) = String(b)

RECURSIVE flattenAdd(_)
flattenAdd(e) ==
    IF e.t = "Add" THEN Concat([i \in 1..Len(e.terms) |-> flattenAdd(e.terms[i])])
    ELSE <<e>>

RECURSIVE flattenMul(_)
flattenMul(e) ==
    IF e.t = "Mul" THEN Concat([i \in 1..Len(e.factors) |-> flattenMul(e.factors[i])])
    ELSE <<e>>

\* the pair (base, coeff) returned by extractCoefficientAndBase
BaseCoeff(base, coeff) == [t |-> "BaseCoeff", base |-> base, coeff |-> coeff]

\* extractCoefficientAndBase: the pair, or Panic
extractCoefficientAndBase(term) ==
    CASE term.t = "Int" ->
           IF term.nil THEN Panic ELSE BaseCoeff(NewInt(1), RInt(term.v))
      [] term.t = "Float" -> BaseCoeff(NewInt(1), <<term.n, term.d>>)
      [] term.t = "Mul" ->
           IF HasNil(term) THEN Panic
           ELSE LET factors == flattenMul(term)
                    nonNumericFactors == SelectTerms(factors, FALSE)
                    coeff == NumProduct(SelectTerms(factors, TRUE))
                IN IF Len(nonNumericFactors) = 0 THEN BaseCoeff(NewInt(1), coeff)
                   ELSE IF Len(nonNumericFactors) = 1
                        THEN BaseCoeff(nonNumericFactors[1], coeff)
                   ELSE BaseCoeff(normalizeMul(NewMul(nonNumericFactors)), coeff)
      [] OTHER -> BaseCoeff(term, RInt(1))

\* collectNumeric
collectNumeric(num) ==
    IF num.t = "Rational"
    THEN LET gcd == GCD(num.num, num.den)
         IN IF gcd = 0 THEN Panic
            ELSE IF EDiv(num.den, gcd) = 1 THEN NilInt
            ELSE NewRational(EDiv(num.num, gcd), EDiv(num.den, gcd))
    ELSE num

\* partitionMul: the pair (numeric, others), or Panic
partitionMul(mul) ==
    IF mul.t = "Panic" \/ HasNil(mul) THEN Panic
    ELSE LET numTerms == SelectTerms(mul.factors, TRUE)
             otherTerms == SelectTerms(mul.factors, FALSE)
             numeric == IF Len(numTerms) = 0 THEN NewInt(1)
                        ELSE IF Len(numTerms) = 1 THEN numTerms[1]
                        ELSE NewFloat(NumProduct(numTerms))
             others == IF Len(otherTerms) = 0 THEN NewInt(1)
                       ELSE IF Len(otherTerms) = 1 THEN otherTerms[1]
                       ELSE NewMul(otherTerms)
         IN [t |-> "Parts", numeric |-> numeric, others |-> others]

\* the position of key among the entries of an insertion-ordered map, or 0
KeyIndex(m, key) ==
    IF \E i \in 1..Len(m) : m[i].key = key
    THEN CHOOSE i \in 1..Len(m) : m[i].key = key
    ELSE 0

RECURSIVE Collect(_, _)
RECURSIVE collectAdd(_, _)
RECURSIVE collectMul(_, _)
RECURSIVE collectPow(_, _)
RECURSIVE collectPowers(_, _)

\* the loop of collectAdd that fills termGroups and coefficients: the
\* entries hold the key, the first term of the group, its size and the sum
RECURSIVE GroupTerms(_, _)
GroupTerms(terms, m) ==
    LET Put(bc, key, i) ==
            IF i = 0
            THEN Append(m, [t |-> "Group", key |-> key, first |-> terms[1],
                            size |-> 1, coeff |-> RAdd(RInt(0), bc.coeff)])
            ELSE [m EXCEPT ![i] = [@ EXCEPT !.size = @ + 1,
                                            !.coeff = RAdd(@, bc.coeff)]]
        Keyed(bc, key) == GroupTerms(Tail(terms), Put(bc, key, KeyIndex(m, key)))
        Grouped(bc) == IF bc.t = "Panic" THEN <<Panic>> ELSE Keyed(bc, String(bc.base))
    IN IF terms = <<>> THEN m
       ELSE Grouped(extractCoefficientAndBase(terms[1]))

\* the term collectAdd rebuilds for one group: <<>> when the group is
\* dropped, <<term>> otherwise
AddGroupTerm(g) ==
    LET coeff == g.coeff
        coeffExpr == IF RIsInt(coeff) THEN NewInt(Int64Of(coeff)) ELSE NewFloat(coeff)
        Term(baseForm, pureNumeric) ==
            IF RSign(coeff) = 0 THEN <<>>
            ELSE IF coeff = RInt(1)
                 THEN IF pureNumeric THEN <<NewInt(1)>> ELSE <<baseForm>>
            ELSE IF coeff = RInt(0 - 1)
                 THEN IF pureNumeric THEN <<NewInt(0 - 1)>>
                      ELSE <<NewMul(<<NewInt(0 - 1), baseForm>>)>>
            ELSE IF pureNumeric THEN <<coeffExpr>>
            ELSE <<NewMul(<<coeffExpr, baseForm>>)>>
        Rebuilt(baseForm) == Term(baseForm, String(baseForm) = <<49>>)
    IN Rebuilt(IF g.size > 1 \/ coeff # RInt(1)
               THEN extractCoefficientAndBase(g.first).base
               ELSE g.first)

collectAdd(add, seed) ==
    LET Sum(result) ==
            IF AnyPanic(result) THEN Panic
            ELSE IF Len(result) = 0 THEN NewInt(0)
            ELSE IF Len(result) = 1 THEN result[1]
            ELSE NewAdd(result)
        Reconstructed(order) ==
            Sum(Concat([i \in 1..Len(order) |-> AddGroupTerm(order[i])]))
        Grouped(groups) ==
            IF AnyPanic(groups) THEN Panic ELSE Reconstructed(Permute(groups, seed))
        Collected(allTerms) ==
            IF AnyPanic(allTerms) THEN Panic ELSE Grouped(GroupTerms(allTerms, <<>>))
        Flattened(flat) == Collected([i \in 1..Len(flat) |-> Collect(flat[i], seed)])
    IN IF HasNil(add) THEN Panic ELSE Flattened(flattenAdd(add))

\* an entry of the map of collectPowers: its key and its powerInfo
PowerInfo(key, base, exponent) ==
    [t |-> "PowerInfo", key |-> key, base |-> base, exponent |-> exponent]

\* the loop of collectPowers over the factors of a product
RECURSIVE PowerTerms(_, _, _)
PowerTerms(terms, m, seed) ==
    LET Rest(entries) ==
            IF AnyPanic(entries) THEN <<Panic>>
            ELSE PowerTerms(Tail(terms), entries, seed)
        Combined(key, base, i, newExp) ==
            IF newExp.t = "Panic" THEN <<Panic>>
            ELSE [m EXCEPT ![i] = PowerInfo(key, base, newExp)]
        Put(key, base, exp, i) ==
            IF i = 0 THEN Append(m, PowerInfo(key, base, exp))
            ELSE Combined(key, base, i, Collect(NewAdd(<<m[i].exponent, exp>>), seed))
        Keyed(key, base, exp) == Rest(Put(key, base, exp, KeyIndex(m, key)))
        Split(base, exp) == Keyed(String(base), base, exp)
    IN IF terms = <<>> THEN m
       ELSE IF terms[1].t = "Pow" THEN Split(terms[1].base, terms[1].exponent)
       ELSE Split(terms[1], NewInt(1))

collectPowers(expr, seed) ==
    CASE expr.t = "Mul" ->
           IF HasNil(expr) THEN <<Panic>> ELSE PowerTerms(expr.factors, <<>>, seed)
      [] expr.t = "Pow" ->
           IF HasNil(expr) THEN <<Panic>>
           ELSE <<PowerInfo(String(expr.base), expr.base, expr.exponent)>>
      [] OTHER ->
           IF HasNil(expr) THEN <<Panic>>
           ELSE IF ~isOne(expr) THEN <<PowerInfo(String(expr), expr, NewInt(1))>>
           ELSE <<>>

\* the factor collectMul rebuilds for one power: <<>> when it is skipped
MulPowerFactor(p) ==
    IF HasNil(p.exponent) /\ isNumeric(p.exponent) THEN <<Panic>>
    ELSE IF isOne(p.exponent) THEN <<p.base>>
    ELSE IF isZero(p.exponent) THEN <<>>
    ELSE <<NewPow(p.base, p.exponent)>>

collectMul(mul, seed) ==
    LET Product(factors) ==
            IF AnyPanic(factors) THEN Panic
            ELSE IF Len(factors) = 0 THEN NewInt(1)
            ELSE IF Len(factors) = 1 THEN factors[1]
            ELSE NewMul(factors)
        Reconstructed(numeric, order) ==
            Product((IF ~isOne(numeric) THEN <<numeric>> ELSE <<>>)
                    \o Concat([i \in 1..Len(order) |-> MulPowerFactor(order[i])]))
        Powered(numeric, powers) ==
            IF AnyPanic(powers) THEN Panic
            ELSE Reconstructed(numeric, Permute(powers, seed))
        Parted(parts) ==
            IF parts.t = "Panic" THEN Panic
            ELSE IF isZero(parts.numeric) THEN NewInt(0)
            ELSE Powered(parts.numeric, collectPowers(parts.others, seed))
        Collected(allFactors) ==
            IF AnyPanic(allFactors) THEN Panic
            ELSE Parted(partitionMul(NewMul(allFactors)))
        Flattened(flat) == Collected([i \in 1..Len(flat) |-> Collect(flat[i], seed)])
    IN IF HasNil(mul) THEN Panic ELSE Flattened(flattenMul(mul))

collectPow(pow, seed) ==
    LET Nested(base, newExp) ==
            IF newExp.t = "Panic" THEN Panic ELSE NewPow(base.base, newExp)
        Multiplied(base, prod) ==
            Nested(base, IF prod.t = "Panic" THEN Panic ELSE Collect(prod, seed))
        Collected(base, exp) ==
            IF base.t = "Panic" \/ exp.t = "Panic" THEN Panic
            ELSE IF base.t = "Pow"
                 THEN IF HasNil(base) THEN Panic
                      ELSE Multiplied(base, NewMul(<<base.exponent, exp>>))
            ELSE IF HasNil(exp) /\ isNumeric(exp) THEN Panic
            ELSE IF isZero(exp) THEN NewInt(1)
            ELSE IF isOne(exp) THEN base
            ELSE NewPow(base, exp)
    IN IF HasNil(pow) THEN Panic
       ELSE Collected(Collect(pow.base, seed), Collect(pow.exponent, seed))

Collect(expr, seed) ==
    CASE expr.t = "Add" -> collectAdd(expr, seed)
      [] expr.t = "Mul" -> collectMul(expr, seed)
      [] expr.t = "Pow" -> collectPow(expr, seed)
      [] isNumeric(expr) -> collectNumeric(expr)
      [] OTHER -> expr

\* extractFactors
extractFactors(expr) == IF expr.t = "Mul" THEN expr.factors ELSE <<expr>>

\* containsFactor
containsFactor(expr, factor) ==
    \E i \in 1..Len(extractFactors(expr)) : termsEqual(extractFactors(expr)[i], factor)

\* findCommonFactor: <<>> for nil, <<factor>> otherwise
findCommonFactor(terms) ==
    IF Len(terms) = 0 THEN <<>>
    ELSE LET firstFactors == extractFactors(terms[1])
             IsCommon(factor) == \A i \in 2..Len(terms) : containsFactor(terms[i], factor)
             Common[i \in 0..Len(firstFactors)] ==
                 IF i = 0 THEN <<>>
                 ELSE IF IsCommon(firstFactors[i]) THEN Append(Common[i - 1], firstFactors[i])
                 ELSE Common[i - 1]
             Found(commonFactors) ==
                 IF Len(commonFactors) = 0 THEN <<>>
                 ELSE IF Len(commonFactors) = 1 THEN <<commonFactors[1]>>
                 ELSE <<NewMul(commonFactors)>>
         IN IF Len(firstFactors) = 0 THEN <<>>
            ELSE Found(Common[Len(firstFactors)])

\* the terms of mul left by removeFactor: all but the first one equal to factor
RECURSIVE RemoveFirst(_, _)
RemoveFirst(terms, factor) ==
    IF terms = <<>> THEN <<>>
    ELSE IF termsEqual(terms[1], factor) THEN Tail(terms)
    ELSE <<terms[1]>> \o RemoveFirst(Tail(terms), factor)

\* removeFactor
removeFactor(mul, factor) ==
    LET Product(remaining) ==
            IF Len(remaining) = 0 THEN NewInt(1)
            ELSE IF Len(remaining) = 1 THEN remaining[1]
            ELSE NewMul(remaining)
    IN Product(RemoveFirst(mul.factors, factor))

\* the term factorAdd puts in the factorized sum for one term of the sum
FactorizedTerm(term, commonFactor, seed) ==
    IF term.t = "Mul" THEN removeFactor(term, commonFactor)
    ELSE IF termsEqual(term, commonFactor) THEN NewInt(1)
    ELSE IF containsFactor(term, commonFactor)
         THEN Collect(NewMul(<<term, NewPow(commonFactor, NewInt(0 - 1))>>), seed)
    ELSE term

\* factorAdd
factorAdd(add, seed) ==
    LET terms == add.terms
        Factorized(commonFactor, factorizedTerms) ==
            IF AnyPanic(factorizedTerms) THEN Panic
            ELSE NewMul(<<commonFactor, NewAdd(factorizedTerms)>>)
        Found(common) ==
            IF Len(common) = 1 /\ common[1].t = "Panic" THEN Panic
            ELSE IF Len(common) = 1 /\ ~isOne(common[1])
                 THEN Factorized(common[1],
                                 [i \in 1..Len(terms) |->
                                    FactorizedTerm(terms[i], common[1], seed)])
            ELSE add
    IN IF HasNil(add) THEN Panic
       ELSE IF Len(terms) < 2 THEN add
       ELSE Found(findCommonFactor(terms))

\* factorMul
factorMul(mul, seed) == Collect(mul, seed)

\* Factor
Factor(expr, seed) ==
    CASE expr.t = "Add" -> factorAdd(expr, seed)
      [] expr.t = "Mul" -> factorMul(expr, seed)
      [] OTHER -> expr

\* binomialCoeff
RECURSIVE BinomialLoop(_, _, _, _)
BinomialLoop(result, n, k, i) ==
    IF i >= k THEN result
    ELSE BinomialLoop((result * (n - i)) \div (i + 1), n, k, i + 1)

binomialCoeff(n, k) ==
    IF k > n \/ k < 0 THEN 0
    ELSE IF k = 0 \/ k = n THEN 1
    ELSE BinomialLoop(1, n, IF k > n - k THEN n - k ELSE k, 0)

RECURSIVE Expand(_)
RECURSIVE expandMul(_)
RECURSIVE distributiveMultiply(_, _)

\* the products of distributiveMultiply, expanded one by one
ExpandProducts(products) ==
    LET expanded == [i \in 1..Len(products) |->
                       IF products[i].t = "Panic" THEN Panic ELSE Expand(products[i])]
    IN IF AnyPanic(expanded) THEN Panic ELSE NewAdd(expanded)

distributiveMultiply(a, b) ==
    IF a.t = "Panic" \/ b.t = "Panic" THEN Panic
    ELSE IF a.t = "Add"
         THEN IF HasNil(a) THEN Panic
              ELSE ExpandProducts([i \in 1..Len(a.terms) |-> NewMul(<<a.terms[i], b>>)])
    ELSE IF b.t = "Add"
         THEN IF HasNil(b) THEN Panic
              ELSE ExpandProducts([i \in 1..Len(b.terms) |-> NewMul(<<a, b.terms[i]>>)])
    ELSE NewMul(<<a, b>>)

\* the loop of expandMul from the i-th factor on
RECURSIVE ExpandMulLoop(_, _, _)
ExpandMulLoop(result, terms, i) ==
    IF i > Len(terms) \/ result.t = "Panic" THEN result
    ELSE ExpandMulLoop(distributiveMultiply(result, terms[i]), terms, i + 1)

\* expandMul: terms[0] of a product without factors is out of range
expandMul(mul) ==
    IF HasNil(mul) THEN Panic
    ELSE IF Len(mul.factors) = 0 THEN Panic
    ELSE ExpandMulLoop(mul.factors[1], mul.factors, 2)

\* the repeated multiplication of expandBinomial
RECURSIVE RepeatMultiply(_, _, _, _)
RepeatMultiply(result, add, i, n) ==
    IF i >= n \/ result.t = "Panic" THEN result
    ELSE RepeatMultiply(distributiveMultiply(result, add), add, i + 1, n)

\* expandBinomial
expandBinomial(add, n) ==
    IF n = 0 THEN NewInt(1)
    ELSE IF n = 1 THEN add
    ELSE IF HasNil(add) THEN Panic
    ELSE IF Len(add.terms) = 2
         THEN NewAdd([j \in 1..(n + 1) |->
                        NewMul(<<NewInt(binomialCoeff(n, j - 1)),
                                 NewPow(add.terms[1], NewInt(n - (j - 1))),
                                 NewPow(add.terms[2], NewInt(j - 1))>>)])
    ELSE RepeatMultiply(add, add, 1, n)

\* expandPow
expandPow(pow) ==
    IF HasNil(pow) THEN Panic
    ELSE IF pow.base.t = "Add" /\ pow.exponent.t = "Int"
            /\ Int64Of(RInt(pow.exponent.v)) >= 0 /\ Int64Of(RInt(pow.exponent.v)) <= 4
         THEN expandBinomial(pow.base, Int64Of(RInt(pow.exponent.v)))
    ELSE pow

\* Expand (pkg/simplify)
Expand(expr) ==
    CASE expr.t = "Mul" -> expandMul(expr)
      [] expr.t = "Pow" -> expandPow(expr)
      [] OTHER -> expr

(***************************************************************************)
(* Package expand: Expand with Options                                     *)
(***************************************************************************)
DefaultMaxDegree == 10
\* expand.DefaultOptions
expand_DefaultOptions ==
    [MaxDegree |-> DefaultMaxDegree, ExpandLogs |-> FALSE, ExpandTrig |-> FALSE]

RECURSIVE expandExpr(_, _)

\* is a child of the node the outcome of a call that aborted
ChildPanic(r) ==
    CASE r.t = "Add" -> AnyPanic(r.terms)
      [] r.t = "Mul" -> AnyPanic(r.factors)
      [] r.t = "Pow" -> r.base.t = "Panic" \/ r.exponent.t = "Panic"
      [] r.t = "Func" -> AnyPanic(r.args)
      [] OTHER -> FALSE

\* expand.expandAdd
expandAdd(add, opts) ==
    NewAdd([i \in 1..Len(add.terms) |-> expandExpr(add.terms[i], opts)])

\* multiplyTermSets: every term of set1 times every term of set2, expanded
multiplyTermSets(set1, set2, opts) ==
    [k \in 1..(Len(set1) * Len(set2)) |->
       expandExpr(NewMul(<<set1[((k - 1) \div Len(set2)) + 1],
                           set2[((k - 1) % Len(set2)) + 1]>>), opts)]

\* the loop of distributeMultiplication over the additive factors from the i-th on
RECURSIVE DistributeLoop(_, _, _, _)
DistributeLoop(result, addFactors, i, opts) ==
    IF i > Len(addFactors) THEN result
    ELSE DistributeLoop(multiplyTermSets(result, addFactors[i].terms, opts),
                        addFactors, i + 1, opts)

\* distributeMultiplication
distributeMultiplication(addFactors, otherFactors, opts) ==
    LET Scaled(result) ==
            IF Len(otherFactors) > 0
            THEN [j \in 1..Len(result) |->
                    expandExpr(NewMul(<<result[j], NewMul(otherFactors)>>), opts)]
            ELSE result
    IN IF Len(addFactors) = 0 THEN NewMul(otherFactors)
       ELSE NewAdd(Scaled(DistributeLoop(addFactors[1].terms, addFactors, 2, opts)))

\* expand.expandMul
expand_expandMul(mul, opts) ==
    LET IsAdd(f) == f.t = "Add"
        NotAdd(f) == f.t # "Add"
        Split(expandedFactors) ==
            IF Len(SelectSeq(expandedFactors, IsAdd)) = 0
            THEN IF Len(expandedFactors) = 1 THEN expandedFactors[1]
                 ELSE NewMul(expandedFactors)
            ELSE distributeMultiplication(SelectSeq(expandedFactors, IsAdd),
                                          SelectSeq(expandedFactors, NotAdd), opts)
    IN Split([i \in 1..Len(mul.factors) |-> expandExpr(mul.factors[i], opts)])

\* the loop of expandByRepeatedMultiplication; the result of each round is
\* asserted to be a sum
RECURSIVE RepeatLoop(_, _, _, _, _)
RepeatLoop(result, add, i, n, opts) ==
    IF result.t # "Add" THEN Panic
    ELSE IF i >= n THEN result
    ELSE RepeatLoop(expandExpr(NewMul(<<result, add>>), opts), add, i + 1, n, opts)

expandByRepeatedMultiplication(add, n, opts) == RepeatLoop(add, add, 1, n, opts)

\* the largest exponent expandPolynomial multiplies out
MaxRepeated == 4

\* expandPolynomial
expandPolynomial(add, exp, opts) ==
    LET Chosen(expInt) ==
            IF expInt < 0 \/ expInt > opts.MaxDegree THEN NewPow(add, exp)
            ELSE IF expInt = 0 THEN NewInt(1)
            ELSE IF expInt = 1 THEN add
            ELSE IF expInt <= MaxRepeated
                 THEN expandByRepeatedMultiplication(add, expInt, opts)
            ELSE NewPow(add, exp)
    IN Chosen(Int64Of(RInt(exp.v)))

\* expand.expandPow
expand_expandPow(pow, opts) ==
    LET Powered(base, exp) ==
            IF base.t = "Panic" \/ exp.t = "Panic" THEN Panic
            ELSE IF base.t = "Mul"
                 THEN expandExpr(NewMul([i \in 1..Len(base.factors) |->
                                           NewPow(base.factors[i], exp)]), opts)
            ELSE IF base.t = "Add" /\ exp.t = "Int" THEN expandPolynomial(base, exp, opts)
            ELSE NewPow(base, exp)
    IN Powered(expandExpr(pow.base, opts), expandExpr(pow.exponent, opts))

\* expandLogarithm
expandLogarithm(fn) ==
    IF Len(fn.args) # 1 THEN fn
    ELSE IF fn.args[1].t = "Mul"
         THEN NewAdd([i \in 1..Len(fn.args[1].factors) |->
                        NewFunc(fn.name, <<fn.args[1].factors[i]>>)])
    ELSE IF fn.args[1].t = "Pow"
         THEN NewMul(<<fn.args[1].exponent, NewFunc(fn.name, <<fn.args[1].base>>)>>)
    ELSE fn

\* expandTangent, expandSecant, expandCosecant, expandCotangent
expandTrig(fn) ==
    LET Inverse(name) == NewPow(NewFunc(name, <<fn.args[1]>>), NewInt(0 - 1))
    IN IF Len(fn.args) # 1 THEN fn
       ELSE CASE fn.name = "tan" -> NewMul(<<NewFunc("sin", <<fn.args[1]>>), Inverse("cos")>>)
              [] fn.name = "sec" -> Inverse("cos")
              [] fn.name = "csc" -> Inverse("sin")
              [] fn.name = "cot" -> NewMul(<<NewFunc("cos", <<fn.args[1]>>), Inverse("sin")>>)
              [] OTHER -> fn

\* expandFunc
expandFunc(fn, opts) ==
    LET Ruled(expandedFunc) ==
            IF fn.name \in {"ln", "log"} /\ opts.ExpandLogs THEN expandLogarithm(expandedFunc)
            ELSE IF fn.name \in {"tan", "sec", "csc", "cot"} /\ opts.ExpandTrig
                 THEN expandTrig(expandedFunc)
            ELSE expandedFunc
    IN Ruled(NewFunc(fn.name, [i \in 1..Len(fn.args) |-> expandExpr(fn.args[i], opts)]))

\* expandExpr; a failed assertion below aborts the whole call
expandExpr(expr, opts) ==
    LET Checked(r) == IF ChildPanic(r) THEN Panic ELSE r
    IN Checked(CASE expr.t = "Add" -> expandAdd(expr, opts)
                 [] expr.t = "Mul" -> expand_expandMul(expr, opts)
                 [] expr.t = "Pow" -> expand_expandPow(expr, opts)
                 [] expr.t = "Func" -> expandFunc(expr, opts)
                 [] OTHER -> expr)

\* expand.Expand: Terms, Base, Exponent and Args clone the tree they return
expand_Expand(expr, opts) ==
    IF expr.t \in {"Add", "Mul", "Pow", "Func"} /\ HasNil(expr) THEN Panic
    ELSE expandExpr(expr, opts)

\* DefaultOptions (KeepNegative is read by no function)
DefaultMaxIterations == 10
DefaultOptions == [Once |-> FALSE, MaxIterations |-> DefaultMaxIterations]

\* one iteration of the loop of Simplify: the value of step2 at the test
\* that ends the iteration; s1 and s2 seed the map orders of Factor and Collect
SimplifyStep(current, s1, s2) ==
    LET Expanded(step2, step3, same) ==
            IF same = "panic" THEN Panic
            ELSE IF same = "false" THEN Collect(step3, s2)
            ELSE step2
        TryExpand(step2, step3) ==
            Expanded(step2, step3,
                     IF step3.t = "Panic" THEN "panic" ELSE Equal(step2, step3))
        Compared(step2, same) ==
            IF same = "panic" THEN Panic
            ELSE IF same = "false" THEN step2
            ELSE TryExpand(step2, Expand(step2))
        Kept(step2) ==
            Compared(step2, IF step2.t = "Panic" THEN "panic" ELSE Equal(current, step2))
        Chosen(step1, step2, same) ==
            Kept(IF same = "panic" THEN Panic
                 ELSE IF same = "true" THEN step1 ELSE step2)
        Collected(step1, step2) ==
            Chosen(step1, step2,
                   IF step2.t = "Panic" THEN "panic" ELSE Equal(step1, step2))
        Factored(step1) ==
            Collected(step1, IF step1.t = "Panic" THEN Panic ELSE Collect(step1, s2))
    IN Factored(Factor(current, s1))

(***************************************************************************)
(* The differentiator (pkg/calculus).  A call returns an expression or an  *)
(* error, or aborts.                                                       *)
(***************************************************************************)
\* no expression
None == [t |-> "None"]

\* the error value a rule returns in place of an expression
Error(msg) == [t |-> "Error", msg |-> msg]

\* fmt.Errorf("failed to compute partial derivative with respect to %s: %w")
Wrapped(variable, err) == [t |-> "Error", msg |-> "partial", variable |-> variable, cause |-> err.msg]

\* the expression a rule has built and hands to simplify.Collect
Uncollected(e) == [t |-> "Uncollected", expr |-> e]

\* the call returned an error or aborted
Failed(r) == r.t \in {"Error", "Panic"}

\* the first error or abort among the outcomes rs, in the order of the calls
RECURSIVE FirstFailed(_)
FirstFailed(rs) ==
    IF rs = <<>> THEN None
    ELSE IF Failed(rs[1]) THEN rs[1]
    ELSE FirstFailed(Tail(rs))

\* Variables() of a node: the names of the variables that occur in it
RECURSIVE Variables(_)
Variables(e) ==
    CASE e.t = "Var" -> {e.name}
      [] e.t = "Add" -> UNION {Variables(e.terms[i]) : i \in 1..Len(e.terms)}
      [] e.t = "Mul" -> UNION {Variables(e.factors[i]) : i \in 1..Len(e.factors)}
      [] e.t = "Pow" -> Variables(e.base) \cup Variables(e.exponent)
      [] e.t = "Func" -> UNION {Variables(e.args[i]) : i \in 1..Len(e.args)}
      [] e.t = "Eq" -> Variables(e.left) \cup Variables(e.right)
      [] OTHER -> {}

containsVariable(expr, variable) == variable \in Variables(expr)

\* 1 - u^2, as arcsin and arccos build it
OneMinusSquare(arg) ==
    NewAdd(<<NewInt(1), NewMul(<<NewInt(0 - 1), NewPow(arg, NewInt(2))>>)>>)

\* the names of the elementary-derivative table
TableNames == {"sin", "cos", "tan", "sec", "csc", "cot", "arcsin", "arccos", "arctan",
               "sinh", "cosh", "tanh", "ln", "log", "exp", "sqrt", "abs"}

\* the derivative of the function named funcName at arg, before the chain rule
getFunctionDerivative(funcName, arg) ==
    CASE funcName = "sin" -> NewFunc("cos", <<arg>>)
      [] funcName = "cos" -> NewMul(<<NewInt(0 - 1), NewFunc("sin", <<arg>>)>>)
      [] funcName = "tan" ->
           NewPow(NewPow(NewFunc("cos", <<arg>>), NewInt(2)), NewInt(0 - 1))
      [] funcName = "sec" ->
           NewMul(<<NewFunc("sec", <<arg>>), NewFunc("tan", <<arg>>)>>)
      [] funcName = "csc" ->
           NewMul(<<NewInt(0 - 1), NewFunc("csc", <<arg>>), NewFunc("cot", <<arg>>)>>)
      [] funcName = "cot" ->
           NewMul(<<NewInt(0 - 1), NewPow(NewFunc("csc", <<arg>>), NewInt(2))>>)
      [] funcName = "arcsin" ->
           NewPow(NewFunc("sqrt", <<OneMinusSquare(arg)>>), NewInt(0 - 1))
      [] funcName = "arccos" ->
           NewMul(<<NewInt(0 - 1),
                    NewPow(NewFunc("sqrt", <<OneMinusSquare(arg)>>), NewInt(0 - 1))>>)
      [] funcName = "arctan" ->
           NewPow(NewAdd(<<NewInt(1), NewPow(arg, NewInt(2))>>), NewInt(0 - 1))
      [] funcName = "sinh" -> NewFunc("cosh", <<arg>>)
      [] funcName = "cosh" -> NewFunc("sinh", <<arg>>)
      [] funcName = "tanh" ->
           NewPow(NewPow(NewFunc("cosh", <<arg>>), NewInt(2)), NewInt(0 - 1))
      [] funcName = "ln" -> NewPow(arg, NewInt(0 - 1))
      [] funcName = "log" ->
           NewPow(NewMul(<<arg, NewFunc("ln", <<NewInt(10)>>)>>), NewInt(0 - 1))
      [] funcName = "exp" -> NewFunc("exp", <<arg>>)
      [] funcName = "sqrt" ->
           NewMul(<<NewRational(1, 2),
                    NewPow(arg, NewMul(<<NewInt(0 - 1), NewRational(1, 2)>>))>>)
      [] funcName = "abs" ->
           NewMul(<<arg, NewPow(NewFunc("abs", <<arg>>), NewInt(0 - 1))>>)
      [] OTHER -> Error("not implemented")

RECURSIVE differentiate(_, _, _)

\* the sum rule: the derivatives of the terms, in order, then their sum
differentiateAdd(add, variable, seed) ==
    IF HasNil(add) THEN Panic
    ELSE LET Summed(derivs, failed) ==
                 IF failed.t # "None" THEN failed ELSE Uncollected(NewAdd(derivs))
             Each(derivs) == Summed(derivs, FirstFailed(derivs))
         IN Each([i \in 1..Len(add.terms) |-> differentiate(add.terms[i], variable, seed)])

\* a product rule that differentiates the first factor only
differentiateMulLeading(mul, variable, seed) ==
    IF HasNil(mul) THEN Panic
    ELSE IF Len(mul.factors) = 0 THEN NewInt(0)
    ELSE LET Leading(fPrime) ==
                 IF Failed(fPrime) THEN fPrime
                 ELSE Uncollected(NewMul([j \in 1..Len(mul.factors) |->
                                             IF j = 1 THEN fPrime ELSE mul.factors[j]]))
         IN Leading(differentiate(mul.factors[1], variable, seed))

\* the product rule
differentiateMul(mul, variable, seed) ==
    IF HasNil(mul) THEN Panic
    ELSE IF Len(mul.factors) = 0 THEN NewInt(0)
    ELSE LET factors == mul.factors
             Replaced(derivs, i) ==
                 NewMul([j \in 1..Len(factors) |-> IF j = i THEN derivs[i] ELSE factors[j]])
             Built(terms) ==
                 IF AnyPanic(terms) THEN Panic ELSE Uncollected(NewAdd(terms))
             Summed(derivs, failed) ==
                 IF failed.t # "None" THEN failed
                 ELSE IF Len(factors) = 1 THEN derivs[1]
                 ELSE Built([i \in 1..Len(factors) |-> Replaced(derivs, i)])
             Each(derivs) == Summed(derivs, FirstFailed(derivs))
         IN Each([i \in 1..Len(factors) |-> differentiate(factors[i], variable, seed)])

\* the power rule, the exponential rule and the general rule
differentiatePow(pow, variable, seed) ==
    IF HasNil(pow) THEN Panic
    ELSE LET base == pow.base
             exponent == pow.exponent
             ln == NewFunc("ln", <<pow.base>>)
             PowerRule(basePrime) ==
                 IF Failed(basePrime) THEN basePrime
                 ELSE Uncollected(NewMul(<<exponent,
                                           NewPow(base, NewAdd(<<exponent, NewInt(0 - 1)>>)),
                                           basePrime>>))
             ExponentialRule(exponentPrime) ==
                 IF Failed(exponentPrime) THEN exponentPrime
                 ELSE Uncollected(NewMul(<<pow, ln, exponentPrime>>))
             GeneralRule(primes, failed) ==
                 IF failed.t # "None" THEN failed
                 ELSE Uncollected(NewMul(<<pow,
                          NewAdd(<<NewMul(<<primes[2], ln>>),
                                   NewMul(<<exponent,
                                            NewMul(<<primes[1], NewPow(base, NewInt(0 - 1))>>)>>)>>)>>))
             Both(primes) == GeneralRule(primes, FirstFailed(primes))
             Prime(which) ==
                 differentiate(IF which = 1 THEN base ELSE exponent, variable, seed)
         IN IF ~containsVariable(exponent, variable) THEN PowerRule(Prime(1))
            ELSE IF ~containsVariable(base, variable) THEN ExponentialRule(Prime(2))
            ELSE Both([which \in 1..2 |-> Prime(which)])

\* the chain rule for a function of one argument
differentiateFunc(fn, variable, seed) ==
    IF HasNil(fn) THEN Panic
    ELSE IF Len(fn.args) # 1 THEN Error("multi-argument")
    ELSE LET Chain(argPrime, outerDerivative) ==
                 IF Failed(argPrime) THEN argPrime
                 ELSE IF Failed(outerDerivative) THEN outerDerivative
                 ELSE Uncollected(NewMul(<<outerDerivative, argPrime>>))
         IN Chain(differentiate(fn.args[1], variable, seed),
                  getFunctionDerivative(fn.name, fn.args[1]))

\* the rule of each kind of node; what a rule has built is collected once
differentiate(expr, variable, seed) ==
    LET Returned(r) == IF r.t = "Uncollected" THEN Collect(r.expr, seed) ELSE r
    IN Returned(
        CASE expr.t \in {"Int", "Float", "Rational"} -> NewInt(0)
          [] expr.t = "Var" -> IF expr.name = variable THEN NewInt(1) ELSE NewInt(0)
          [] expr.t = "Add" -> differentiateAdd(expr, variable, seed)
          [] expr.t = "Mul" -> differentiateMul(expr, variable, seed)
          [] expr.t = "Pow" -> differentiatePow(expr, variable, seed)
          [] expr.t = "Func" -> differentiateFunc(expr, variable, seed)
          [] OTHER -> Error("cannot differentiate"))

Derivative(expr, variable, seed) == differentiate(expr, variable, seed)

PartialDerivative(expr, variable, seed) == Derivative(expr, variable, seed)

\* the loop of NthDerivative with i applications still to make
RECURSIVE NthLoop(_, _, _, _)
NthLoop(current_, variable, i, seed) ==
    IF i = 0 \/ Failed(current_) THEN current_
    ELSE NthLoop(Derivative(current_, variable, seed), variable, i - 1, seed)

\* an NthDerivative that differentiates once whatever the order
NthDerivativeOnce(expr, variable, n, seed) ==
    IF n < 0 THEN Error("negative order")
    ELSE IF n = 0 THEN expr
    ELSE NthLoop(expr, variable, 1, seed)

NthDerivative(expr, variable, n, seed) ==
    IF n < 0 THEN Error("negative order")
    ELSE IF n = 0 THEN expr
    ELSE NthLoop(expr, variable, n, seed)

\* the map Gradient has filled after the variables vs, or the failure that ended it
RECURSIVE GradientLoop(_, _, _, _)
GradientLoop(expr, vs, gradient, seed) ==
    IF vs = <<>> THEN [t |-> "Gradient", entries |-> gradient]
    ELSE LET Stored(partial) ==
                 IF partial.t = "Panic" THEN Panic
                 ELSE IF partial.t = "Error" THEN Wrapped(vs[1], partial)
                 ELSE GradientLoop(expr, Tail(vs),
                                   [v \in DOMAIN gradient \cup {vs[1]} |->
                                       IF v = vs[1] THEN partial ELSE gradient[v]],
                                   seed)
         IN Stored(PartialDerivative(expr, vs[1], seed))

\* a Gradient that stops after the first variable of the list
GradientFirst(expr, variables, seed) ==
    GradientLoop(expr, IF variables = <<>> THEN <<>> ELSE <<variables[1]>>, <<>>, seed)

Gradient(expr, variables, seed) == GradientLoop(expr, variables, <<>>, seed)

(***************************************************************************)
(* The state: one call at a time.  pc is "idle" before the first call,     *)
(* "loop" inside the loop of Simplify, "done" once a call has returned     *)
(* and "panic" once a call has aborted.                                    *)
(***************************************************************************)
VARIABLES pc, op, input, opts, current, iteration, result, prev, again, vars, value,
          heap, args

vars_ == <<pc, op, input, opts, current, iteration, result, prev, again, vars, value,
           heap, args>>

NoValue == [k |-> "none", n |-> 0, d |-> 0]

\* the arguments of a call of the differentiator besides the expression
NoArgs == [variable |-> "", n |-> 0, variables |-> <<>>, seed |-> 0]

Seeds == 0..MaxSeed

VarNames == {"x", "y", "z"}
BindVals == {RInt(0), RInt(2), RInt(0 - 3)}
Bindings == [VarNames -> BindVals]
NoBinding == [v \in VarNames |-> RInt(0)]

\* the shared constants Pi and E, by the digits they are built from
ConstTable == [pi |-> "3.1415926535897932384626433832795028841971693993751",
               e |-> "2.7182818284590452353602874713526624977572470937000"]

\* what the memory the caller handed to a call holds: the tree, the map of
\* bindings, and the shared constants
Memory(tree, bindings) == [tree |-> tree, bindings |-> bindings, consts |-> ConstTable]

Init ==
    /\ pc = "idle"
    /\ op = "none"
    /\ input = None
    /\ opts = DefaultOptions
    /\ current = None
    /\ iteration = 0
    /\ result = None
    /\ prev = None
    /\ again = FALSE
    /\ vars = NoBinding
    /\ value = NoValue
    /\ heap = Memory(None, NoBinding)
    /\ args = NoArgs

\* no call is in progress and the previous one has been dealt with
Ready == pc = "idle"

\* the caller drops the outcome of the call that returned or aborted
Reset ==
    /\ pc \in {"done", "panic"}
    /\ pc' = "idle"
    /\ op' = "none"
    /\ input' = None
    /\ opts' = DefaultOptions
    /\ current' = None
    /\ iteration' = 0
    /\ result' = None
    /\ prev' = None
    /\ again' = FALSE
    /\ vars' = NoBinding
    /\ value' = NoValue
    /\ heap' = Memory(None, NoBinding)
    /\ args' = NoArgs

\* a one-shot operation returns res
Returns(name, e, res, rep) ==
    /\ op' = name
    /\ input' = e
    /\ result' = res
    /\ pc' = IF res.t = "Panic" THEN "panic" ELSE "done"
    /\ again' = rep
    /\ prev' = IF rep THEN result ELSE None
    /\ current' = None
    /\ iteration' = 0
    /\ opts' = DefaultOptions
    /\ vars' = NoBinding
    /\ value' = NoValue
    /\ heap' = Memory(TreeAfter(name, e), NoBinding)
    /\ args' = NoArgs

(***************************************************************************)
(* ast.Add.Factor and ast.Mul.partition                                    *)
(***************************************************************************)
\* isOne of pkg/ast (its file is not among the sources): a numeric leaf
\* whose value is 1
astIsOne(e) == isNumeric(e) /\ NumVal(e) = <<1, 1>>

\* the loop of Mul.partition over the numeric terms: Int times Int stays an
\* Int, anything else is multiplied in float64
RECURSIVE PartitionNumeric(_, _)
PartitionNumeric(numPart, numericTerms) ==
    IF numericTerms = <<>> THEN numPart
    ELSE PartitionNumeric(
           IF numPart.t = "Int" /\ numericTerms[1].t = "Int"
           THEN NewInt(numPart.v * numericTerms[1].v)
           ELSE NewFloat(RMul(NumVal(numPart), NumVal(numericTerms[1]))),
           Tail(numericTerms))

\* Mul.partition
partition(m) ==
    LET numericTerms == SelectTerms(m.factors, TRUE)
        exprTerms == SelectTerms(m.factors, FALSE)
    IN [t |-> "Parts",
        numeric |-> PartitionNumeric(NewInt(1), numericTerms),
        others |-> IF Len(exprTerms) = 0 THEN NewInt(1)
                   ELSE IF Len(exprTerms) = 1 THEN exprTerms[1]
                   ELSE NewMul(exprTerms)]

\* the coefficient Add.Factor reads off a term: <<>> when it is not an integer
FactorCoeff(term) ==
    IF term.t = "Mul"
    THEN IF partition(term).numeric.t = "Int" THEN <<partition(term).numeric.v>> ELSE <<>>
    ELSE IF term.t = "Int" THEN <<term.v>>
    ELSE <<1>>

\* the first loop of Add.Factor from the i-th term on: <<gcd>>, or <<>> when
\* the sum is returned unchanged; gcd is <<>> before the first term
RECURSIVE FactorGCD(_, _, _)
FactorGCD(terms, i, gcd) ==
    IF i > Len(terms) THEN gcd
    ELSE LET coeff == FactorCoeff(terms[i])
         IN IF coeff = <<>> THEN <<>>
            ELSE LET g == IF gcd = <<>> THEN Abs(coeff[1]) ELSE GCD(gcd[1], Abs(coeff[1]))
                 IN IF g = 1 THEN <<>> ELSE FactorGCD(terms, i + 1, <<g>>)

\* a factored sum whose terms keep their coefficients
FactoredTermUndivided(term, gcd) == term

\* the term of the factored sum for one term of the sum
FactoredTerm(term, gcd) ==
    IF term.t = "Mul"
    THEN LET parts == partition(term)
             newCoeff == NewInt(EDiv(parts.numeric.v, gcd))
         IN IF astIsOne(newCoeff) THEN parts.others
            ELSE NewMul(<<newCoeff, parts.others>>)
    ELSE IF term.t = "Int" THEN NewInt(EDiv(term.v, gcd))
    ELSE term

\* Add.Factor
AddFactor(a) ==
    IF Len(a.terms) = 0 THEN NewInt(0)
    ELSE IF Len(a.terms) = 1 THEN a.terms[1]
    ELSE LET gcd == FactorGCD(a.terms, 1, <<>>)
         IN IF gcd # <<>> /\ gcd[1] > 1
            THEN LET factoredTerms ==
                       [i \in 1..Len(a.terms) |-> FactoredTerm(a.terms[i], gcd[1])]
                     factoredSum == IF Len(factoredTerms) = 1 THEN factoredTerms[1]
                                    ELSE NewAdd(factoredTerms)
                 IN NewMul(<<NewInt(gcd[1]), factoredSum>>)
            ELSE a

(***************************************************************************)
(* The expressions the calls are made on                                   *)
(***************************************************************************)
X == NewVar("x")
Y == NewVar("y")
Z == NewVar("z")

IntLeaves == {NewInt(n) : n \in (0 - 1)..MaxLeaf}
RationalLeaves == {NewRationalPreserved(1, 2), NewRationalPreserved(2, 1),
                   NewRationalPreserved(4, 2)}
FloatLeaves == {NewFloat(<<1, 2>>), NewFloat(<<0 - 1, 2>>)}
Leaves == IntLeaves \cup {X, Y} \cup RationalLeaves \cup FloatLeaves

\* products of a coefficient or a variable with a variable
Monomials ==
    {NewMul(<<a, b>>) : a \in {NewInt(0 - 1), NewInt(2), NewInt(3), X, Y}, b \in {X, Y, Z}}

Powers == {NewPow(b, e) : b \in {X, NewPow(X, NewInt(2))},
                          e \in {NewInt(0), NewInt(1), NewInt(2), NewRationalPreserved(1, 2)}}

Terms == Leaves \cup Monomials \cup Powers

\* sums and products with zero or one child, Eq nodes, products of sums
Degenerate ==
    {NewAdd(<<>>), MulOf(<<>>), NewAdd(<<X>>), MulOf(<<X>>),
     NewAdd(<<NewInt(4)>>), NewAdd(<<NewMul(<<NewInt(2), X>>)>>),
     NewEq(X, NewInt(1), "EqEqual"), NewEq(NewAdd(<<X, X>>), Y, "EqLess")}

Nested ==
    {NewMul(<<Z, NewAdd(<<X, Y>>)>>), NewMul(<<NewAdd(<<X, NewInt(1)>>), NewAdd(<<X, Y>>)>>),
     NewPow(NewAdd(<<X, NewInt(1)>>), NewInt(2)), NewPow(NewAdd(<<X, Y, NewInt(1)>>), NewInt(2)),
     NewAdd(<<X, X, X>>), NewAdd(<<NewMul(<<NewInt(2), X>>), NewMul(<<NewInt(3), X>>), NewInt(1)>>),
     NewMul(<<NewInt(2), X, X, Y>>), NewMul(<<X, X, X>>), NewMul(<<NewInt(1), X, NewInt(1)>>),
     NewAdd(<<NewMul(<<NewInt(2), X>>), NewMul(<<NewInt(4), Y>>)>>),
     NewAdd(<<NewMul(<<NewInt(2), X, Y>>), NewMul(<<NewInt(3), X, Y>>)>>),
     NewAdd(<<NewMul(<<NewInt(4), X>>), NewMul(<<NewInt(0 - 6), Y>>), NewInt(2)>>)}

\* integers at and around the ends of the int64 range
EdgeInts == {MinInt64, 0 - 1, 0, 1, 2, 500000, MaxInt64 - 1, MaxInt64}
IntSums == {NewAdd(<<NewInt(a), NewInt(b)>>) : a, b \in EdgeInts}

\* sums of two terms: numbers, variables, monomials, a power
SumTerms ==
    {NewInt(0), NewInt(2), X, NewRationalPreserved(1, 2), NewRationalPreserved(4, 2),
     NewFloat(<<1, 2>>),
     NewMul(<<NewInt(2), X>>), NewMul(<<NewInt(0 - 1), X>>), NewMul(<<X, Y>>),
     NewMul(<<X, Z>>), NewMul(<<Y, Z>>), NewPow(X, NewInt(2))}
Sums == {NewAdd(<<s, u>>) : s, u \in SumTerms}

Inputs == Terms \cup Degenerate \cup Nested \cup IntSums \cup Sums

\* Options{Once: true} leaves MaxIterations at the zero value of an int
OptionSet == {DefaultOptions,
              [Once |-> TRUE, MaxIterations |-> DefaultMaxIterations],
              [Once |-> FALSE, MaxIterations |-> 2],
              [Once |-> TRUE, MaxIterations |-> 2],
              [Once |-> TRUE, MaxIterations |-> 0]}

(***************************************************************************)
(* Simplify, one action per iteration of its loop                          *)
(***************************************************************************)
\* the call: options, current and iteration are set up
SimplifyEnter(e, o, rep) ==
    /\ op' = "Simplify"
    /\ input' = e
    /\ opts' = o
    /\ current' = e
    /\ iteration' = 0
    /\ result' = None
    /\ pc' = "loop"
    /\ again' = rep
    /\ prev' = IF rep THEN result ELSE None
    /\ vars' = NoBinding
    /\ value' = NoValue
    /\ heap' = Memory(e, NoBinding)
    /\ args' = NoArgs

SimplifyCall(e, o) ==
    /\ Ready
    /\ SimplifyEnter(e, o, FALSE)

\* Simplify called on the result of the Simplify call that just returned
SimplifyAgain ==
    /\ pc = "done"
    /\ op = "Simplify"
    /\ ~again
    /\ opts = DefaultOptions
    /\ SimplifyEnter(result, DefaultOptions, TRUE)

\* a loop test that lets one more iteration through
LoopGuardInclusive(i, o) == i <= o.MaxIterations

\* the test of the for loop
LoopGuard(i, o) == i < o.MaxIterations

\* the test that ends the loop after an iteration
StopTest(eq, o) == eq = "true" \/ o.Once

SimplifyRound(s1, s2) ==
    LET Tested(step2, eq) ==
            IF eq = "panic"
            THEN /\ pc' = "panic"
                 /\ result' = Panic
                 /\ UNCHANGED <<current, iteration>>
            ELSE IF StopTest(eq, opts)
            THEN /\ pc' = "done"
                 /\ result' = step2
                 /\ UNCHANGED <<current, iteration>>
            ELSE /\ pc' = "loop"
                 /\ current' = step2
                 /\ iteration' = iteration + 1
                 /\ UNCHANGED result
        Stepped(step2) ==
            Tested(step2, IF step2.t = "Panic" THEN "panic" ELSE Equal(current, step2))
    IN /\ pc = "loop"
       /\ LoopGuard(iteration, opts)
       /\ Stepped(SimplifyStep(current, s1, s2))
       /\ heap' = IF iteration = 0 THEN Memory(TreeAfter(op, heap.tree), heap.bindings)
                  ELSE heap
       /\ UNCHANGED <<op, input, opts, prev, again, vars, value, args>>

\* the loop ends on its cap: current is returned
SimplifyCap ==
    /\ pc = "loop"
    /\ ~LoopGuard(iteration, opts)
    /\ pc' = "done"
    /\ result' = current
    /\ UNCHANGED <<op, input, opts, current, iteration, prev, again, vars, value, heap, args>>

NextSimplify ==
    \/ \E e \in Inputs : SimplifyCall(e, DefaultOptions)
    \/ \E e \in Nested, o \in OptionSet : SimplifyCall(e, o)
    \/ SimplifyAgain
    \/ \E s1, s2 \in Seeds : SimplifyRound(s1, s2)
    \/ SimplifyCap
    \/ Reset

SpecSimplify == Init /\ [][NextSimplify]_vars_

\* what a round of the loop does to the control state: it returns, aborts
\* or counts one more iteration.  A round computes its outcome from current
\* alone, so it can be taken in every state where the loop test holds, and
\* the steps of SimplifyRound are the steps of NextSimplify that satisfy
\* RoundAdvance.
RoundAdvance ==
    /\ pc = "loop"
    /\ LoopGuard(iteration, opts)
    /\ \/ pc' \in {"done", "panic"} /\ iteration' = iteration
       \/ pc' = "loop" /\ iteration' = iteration + 1

\* the loop of Simplify is sequential code: while control is inside the loop
\* the next round, or the return that follows the last one, is taken
FairSimplify ==
    /\ SpecSimplify
    /\ WF_<<pc, iteration>>(RoundAdvance)
    /\ WF_vars_(SimplifyCap)

(***************************************************************************)
(* Collect, Factor, Expand, Normalize and ast.Add.Factor, each called once *)
(***************************************************************************)
CollectCall(e, seed) ==
    /\ Ready
    /\ Returns("Collect", e, Collect(e, seed), FALSE)

\* a second call of Collect on the expression of the call that just returned
CollectAgain(seed) ==
    /\ pc = "done"
    /\ op = "Collect"
    /\ ~again
    /\ Returns("Collect", input, Collect(input, seed), TRUE)

FactorCall(e, seed) ==
    /\ Ready
    /\ Returns("Factor", e, Factor(e, seed), FALSE)

ExpandCall(e) ==
    /\ Ready
    /\ Returns("Expand", e, Expand(e), FALSE)

NormalizeCall(e) ==
    /\ Ready
    /\ Returns("Normalize", e, Normalize(e), FALSE)

AddFactorCall(a) ==
    /\ Ready
    /\ Returns("Add.Factor", a, AddFactor(a), FALSE)

\* the three terms of a sum are coefficients times x, y and a constant
FactorSums ==
    {NewAdd(<<NewMul(<<NewInt(a), X>>), NewMul(<<NewInt(b), Y>>)>>) :
        a, b \in {0 - 6, 0 - 4, 1, 2, 3, 4, 6}}
    \cup {NewAdd(<<NewMul(<<NewInt(a), X>>), NewMul(<<NewInt(b), Y>>), NewInt(c)>>) :
        a \in {2, 4}, b \in {0 - 6, 4}, c \in {0 - 2, 0, 3, 8}}
    \cup {NewAdd(<<NewMul(<<NewInt(2), X>>), NewMul(<<NewFloat(<<1, 2>>), Y>>)>>),
          NewAdd(<<NewMul(<<NewInt(2), X>>), NewMul(<<NewRationalPreserved(4, 1), Y>>)>>),
          NewAdd(<<NewMul(<<NewInt(2), X>>), Y>>),
          NewAdd(<<NewMul(<<NewInt(2), X, Y>>), NewMul(<<NewInt(2), NewInt(3), Y>>)>>),
          NewAdd(<<NewMul(<<NewInt(4), X>>)>>), NewAdd(<<NewInt(4)>>), NewAdd(<<>>)}

OpInputs == Inputs \cup FactorSums

\* sums whose terms have one factor, or several, in common
CommonFactorSums ==
    {NewAdd(<<NewMul(<<X, Y>>), NewMul(<<X, Z>>)>>),
     NewAdd(<<X, NewMul(<<X, Y>>)>>),
     NewAdd(<<NewMul(<<X, Y>>), X>>),
     NewAdd(<<NewMul(<<X, X>>), NewMul(<<X, Y>>)>>),
     NewAdd(<<NewMul(<<NewInt(2), X>>), NewMul(<<NewInt(2), Y>>), NewInt(2)>>),
     NewAdd(<<NewMul(<<NewPow(X, NewInt(2)), Y>>), NewMul(<<NewInt(3), NewPow(X, NewInt(2))>>)>>),
     NewAdd(<<NewMul(<<NewFunc("sin", <<X>>), Y>>), NewMul(<<Z, NewFunc("sin", <<X>>)>>)>>),
     NewAdd(<<NewMul(<<NewInt(2), X, Y>>), NewMul(<<NewInt(3), X, Y>>)>>),
     NewAdd(<<NewMul(<<X, Y>>), NewMul(<<Y, X>>)>>),
     NewAdd(<<NewMul(<<X, Y, Z>>), NewMul(<<Z, Y, X>>), NewMul(<<NewInt(2), X, Y, Z>>)>>),
     NewAdd(<<NewMul(<<NewInt(1), X>>), NewMul(<<NewInt(1), Y>>)>>)}

\* products with a zero among their numeric factors
ZeroProducts ==
    {NewMul(<<NewInt(0), X>>), NewMul(<<X, NewInt(0)>>), NewMul(<<NewInt(0 - 1), NewInt(0)>>),
     NewMul(<<NewInt(0), NewInt(0 - 1)>>), NewMul(<<NewInt(0), NewInt(0)>>),
     NewMul(<<NewInt(2), NewInt(0), X>>), NewMul(<<NewFloat(<<0, 1>>), X>>),
     NewMul(<<X, NewMul(<<NewInt(0), Y>>)>>), MulOf(<<NewInt(0)>>),
     NewMul(<<NewInt(0 - 1), NewInt(0), X>>), NewMul(<<NewInt(0), NewFloat(<<1, 2>>)>>),
     NewMul(<<NewInt(0), NewRationalPreserved(1, 2)>>),
     NewMul(<<NewInt(0), NewRationalPreserved(2, 1)>>),
     NewMul(<<NewRationalPreserved(0, 1), X>>)}

\* products of numbers, variables and powers of variables
PowerProducts ==
    {NewMul(<<NewInt(2), NewInt(3), NewInt(4)>>), NewMul(<<NewInt(2), X, NewInt(3)>>),
     NewMul(<<X, Y, X>>), NewMul(<<X, NewPow(X, NewInt(0 - 1))>>),
     NewMul(<<NewPow(X, NewInt(2)), NewPow(X, NewInt(3))>>),
     NewMul(<<NewPow(X, NewInt(2)), Y, NewPow(X, NewInt(0 - 2))>>),
     NewMul(<<NewFloat(<<1, 2>>), NewInt(2), X>>), NewMul(<<NewInt(1), NewInt(1)>>),
     NewMul(<<X, NewInt(2), NewPow(Y, NewInt(2)), Y, NewInt(0 - 1)>>),
     NewMul(<<NewMul(<<NewInt(2), X>>), NewMul(<<NewInt(3), X>>)>>),
     NewMul(<<NewPow(X, NewInt(1)), X>>), NewMul(<<X, NewPow(X, Y)>>),
     NewMul(<<NewRationalPreserved(1, 2), X, X>>),
     NewMul(<<NewRationalPreserved(2, 1), X>>), NewMul(<<NewInt(0 - 1), NewInt(3)>>)}

\* powers of powers, and powers whose base or exponent collects to less
NestedPowers ==
    {NewPow(NewPow(X, NewInt(2)), NewInt(3)), NewPow(NewPow(X, NewInt(2)), NewInt(0)),
     NewPow(NewPow(X, NewInt(2)), NewInt(1)),
     NewPow(NewPow(X, NewInt(2)), NewFloat(<<1, 2>>)),
     NewPow(NewPow(NewPow(X, NewInt(2)), NewInt(3)), NewInt(2)),
     NewPow(NewPow(X, Y), NewInt(2)), NewPow(NewMul(<<X, X>>), NewInt(3)),
     NewPow(NewAdd(<<X, X>>), NewInt(2)), NewPow(X, NewAdd(<<NewInt(1), NewInt(0 - 1)>>)),
     NewPow(X, NewAdd(<<NewInt(2), NewInt(0 - 1)>>)), NewPow(X, NewAdd(<<Y, Y>>)),
     NewPow(NewPow(X, NewInt(1)), NewInt(0)), NewPow(NewPow(X, NewInt(0)), NewInt(5)),
     NewPow(NewInt(2), NewInt(3)), NewPow(NewInt(2), NewPow(NewInt(2), NewInt(2))),
     NewPow(Y, NewInt(3)), NewPow(NewMul(<<X, Y>>), NewInt(0)),
     NewPow(NewMul(<<NewInt(1), X>>), NewInt(1))}

CollectInputs == OpInputs \cup ZeroProducts \cup PowerProducts \cup NestedPowers

NextOps ==
    \/ \E e \in CollectInputs, seed \in Seeds : CollectCall(e, seed)
    \/ \E seed \in Seeds : CollectAgain(seed)
    \/ \E e \in OpInputs \cup CommonFactorSums, seed \in Seeds : FactorCall(e, seed)
    \/ \E e \in OpInputs : ExpandCall(e)
    \/ \E e \in OpInputs : NormalizeCall(e)
    \/ \E a \in FactorSums : AddFactorCall(a)
    \/ Reset

SpecOps == Init /\ [][NextOps]_vars_

(***************************************************************************)
(* Eval                                                                    *)
(***************************************************************************)
\* the caller binds x and y; z is left unbound
EvalBindings == [{"x", "y"} -> BindVals]

EvalCall(e, b) ==
    /\ Ready
    /\ op' = "Eval"
    /\ input' = e
    /\ vars' = b
    /\ value' = Eval(e, b)
    /\ pc' = IF Eval(e, b).k = "panic" THEN "panic" ELSE "done"
    /\ heap' = Memory(e, BindingsAfterEval(e, b))
    /\ args' = NoArgs
    /\ UNCHANGED <<opts, current, iteration, result, prev, again>>

Reciprocal(e) == NewPow(e, NewInt(0 - 1))

EvalInputs ==
    Terms \cup Nested
    \cup {Reciprocal(X), Reciprocal(NewAdd(<<X, Y>>)), NewPow(X, NewInt(0 - 2)),
          NewMul(<<NewInt(0), Reciprocal(X)>>), NewMul(<<Y, Reciprocal(X)>>),
          NewAdd(<<NewInt(1), Reciprocal(X)>>),
          NewAdd(<<Reciprocal(X), NewMul(<<NewInt(0 - 1), Reciprocal(X)>>)>>),
          NewAdd(<<Reciprocal(X), Reciprocal(Y)>>),
          NewFunc("sqrt", <<X>>), NewFunc("sqrt", <<NewInt(0 - 1)>>),
          NewFunc("sqrt", <<NewInt(4)>>), NewFunc("sqrt", <<NewAdd(<<X, Y>>)>>),
          NewFunc("abs", <<X>>), NewFunc("ln", <<X>>), NewFunc("ln", <<NewInt(1)>>),
          NewPow(X, NewRationalPreserved(1, 2)), NewPow(NewInt(4), NewRationalPreserved(3, 2)),
          NewEq(X, Y, "EqEqual"), NewEq(Reciprocal(X), Y, "EqLess"),
          NewRationalPreserved(1, 0), Z, NewAdd(<<X, Z>>)}

\* the names of the functions the calls name: those Func.Eval has a case for,
\* those the derivative table has, and one that neither has
FuncNames == EvalNames \cup TableNames \cup {"foo"}

\* a Rational just above 1: 1 + 2^-(Float64Bits + 1)
JustAboveOne == NewRationalPreserved(Pow2(Float64Bits + 1) + 1, Pow2(Float64Bits + 1))

\* arguments in, at the border of, and outside the domains
FuncEvalArgs ==
    {X, NewInt(0 - 2), NewInt(0 - 1), NewInt(0), NewInt(1), NewInt(2), NewInt(10),
     NewRationalPreserved(1, 2), NewRationalPreserved(0 - 1, 2), NewFloat(<<3, 2>>),
     NewRationalPreserved(1, 0), NewRationalPreserved(0 - 1, 0)}

\* arguments next to 1 and -1
NearOne ==
    {JustAboveOne,
     NewRationalPreserved(0 - Pow2(Float64Bits + 1) - 1, Pow2(Float64Bits + 1)),
     NewRationalPreserved(Pow2(Float64Bits - 1) + 1, Pow2(Float64Bits - 1)),
     NewRationalPreserved(Pow2(Float64Bits + 1) - 1, Pow2(Float64Bits + 1))}

FuncEvalInputs ==
    {NewFunc(name, <<a>>) : name \in FuncNames, a \in FuncEvalArgs}
    \cup {NewFunc(name, <<a>>) : name \in {"arcsin", "arccos", "asin", "acos", "ln", "log"},
                                a \in NearOne}
    \cup {NewFunc(name, <<>>) : name \in {"ln", "log", "sin", "foo"}}
    \cup {NewFunc(name, <<a, b>>) : name \in {"ln", "log", "arcsin"},
                                   a \in {NewInt(8), NewInt(1), NewInt(0 - 1), X},
                                   b \in {NewInt(2), NewInt(1), NewInt(0), NewRationalPreserved(1, 0)}}
    \cup {NewFunc("log", <<NewInt(1), NewInt(2), NewInt(3)>>),
          NewFunc("ln", <<NewFunc("ln", <<X>>)>>), NewFunc("sin", <<Z>>)}

\* the functions the README lists as supported
DocumentedNames == {"sin", "cos", "tan", "ln", "log", "sqrt", "abs", "exp", "sinh", "cosh", "tanh"}

\* the expressions Derivative returns for the functions of its table, applied
\* to x and to 2*x
DerivativeResults ==
    LET results == {Derivative(NewFunc(name, <<u>>), "x", 0) :
                        name \in TableNames, u \in {X, NewMul(<<NewInt(2), X>>)}}
    IN {r \in results : ~Failed(r)}

NextEval ==
    \/ \E e \in EvalInputs \cup FuncEvalInputs, b \in EvalBindings : EvalCall(e, b)
    \/ \E e \in DerivativeResults, b \in EvalBindings : EvalCall(e, b)
    \/ Reset

SpecEval == Init /\ [][NextEval]_vars_

(***************************************************************************)
(* The reducing constructors of Rational                                   *)
(***************************************************************************)
NewRationalCall(num, den) ==
    /\ Ready
    /\ Returns("NewRational", NewRationalPreserved(num, den), NewRational(num, den), FALSE)

NewRationalFromIntsCall(num, den) ==
    /\ Ready
    /\ Returns("NewRationalFromInts", NewRationalPreserved(num, den),
               NewRationalFromInts(num, den), FALSE)

RationalArgs == (0 - MaxRat)..MaxRat

NextRational ==
    \/ \E num, den \in RationalArgs : NewRationalCall(num, den)
    \/ \E num, den \in RationalArgs : NewRationalFromIntsCall(num, den)
    \/ Reset

SpecRational == Init /\ [][NextRational]_vars_

(***************************************************************************)
(* Derivative, NthDerivative and Gradient, each called once                *)
(***************************************************************************)
\* the largest order NthDerivative is called with
MaxOrder == 2

\* a function the table does not list
Foo(u) == NewFunc("foo", <<u>>)

\* x^n for small n and for the ends of the int64 range
PowExponents == {MinInt64, MinInt64 + 1, 0 - 2, 0 - 1, 0, 1, 2, 3, MaxInt64 - 1, MaxInt64}
XPowers == {NewPow(X, NewInt(n)) : n \in PowExponents}

\* the expressions differentiated more than once: the exponents stay small
RepeatedInputs(inputs) ==
    {e \in inputs : e.t = "Pow" /\ e.exponent.t = "Int" => Abs(e.exponent.v) <= 3}

\* powers with the variable in the base, in the exponent, in both, and with
\* a function outside the table in either place
OtherPowers ==
    {NewPow(NewMul(<<NewInt(2), X>>), NewInt(3)), NewPow(NewPow(X, NewInt(2)), NewInt(3)),
     NewPow(NewAdd(<<X, NewInt(1)>>), NewInt(2)), NewPow(X, Y), NewPow(X, X),
     NewPow(NewInt(2), X), NewPow(X, NewFloat(<<5, 2>>)),
     NewPow(Foo(X), NewInt(2)), NewPow(X, Foo(NewInt(2))), NewPow(NewInt(2), Foo(X)),
     NewPow(X, Foo(X)), NewPow(Foo(X), X), NewPow(Foo(NewInt(2)), X)}

FuncArgs == {X, Y, NewInt(2), NewPow(X, NewInt(2)), NewMul(<<NewInt(2), X>>)}
OneArgFuncs == {NewFunc(name, <<u>>) : name \in TableNames \cup {"foo"}, u \in FuncArgs}
OtherFuncs ==
    {NewFunc("sin", <<>>), NewFunc("sin", <<X, Y>>), NewFunc("foo", <<>>),
     NewFunc("log", <<X, NewInt(2)>>), NewFunc("sin", <<Foo(X)>>),
     NewFunc("sin", <<NewFunc("cos", <<X>>)>>), NewFunc("ln", <<NewFunc("sin", <<>>)>>),
     Foo(NewMul(<<NewRationalPreserved(2, 1), X>>)),
     NewFunc("sin", <<NewMul(<<NewRationalPreserved(2, 1), X>>)>>)}

CalcProducts ==
    {MulOf(<<>>), MulOf(<<X>>), MulOf(<<NewPow(X, NewInt(2))>>), MulOf(<<Foo(X)>>),
     NewMul(<<X, X>>), NewMul(<<NewInt(2), X>>), NewMul(<<NewInt(0 - 1), X>>),
     NewMul(<<X, Y>>), NewMul(<<X, NewFunc("sin", <<X>>)>>),
     NewMul(<<NewPow(X, NewInt(2)), NewPow(X, NewInt(3))>>),
     NewMul(<<NewMul(<<NewInt(0 - 1), X>>), NewInt(3)>>),
     NewMul(<<X, X, X>>), NewMul(<<NewInt(2), X, Y>>), NewMul(<<X, Y, NewPow(X, NewInt(2))>>),
     NewMul(<<X, NewInt(3), X, Y>>), NewMul(<<NewRationalPreserved(2, 1), X>>),
     NewMul(<<Foo(X), X>>), NewMul(<<X, Foo(Y)>>), NewMul(<<X, Y, Foo(NewInt(2))>>),
     NewMul(<<NewFunc("sin", <<>>), Foo(X)>>)}

CalcSums ==
    {NewAdd(<<>>), NewAdd(<<X>>), NewAdd(<<NewPow(X, NewInt(2)), X>>),
     NewAdd(<<NewMul(<<NewInt(3), X>>), Y, NewInt(2)>>),
     NewAdd(<<X, Foo(X)>>), NewAdd(<<Foo(Y), NewFunc("sin", <<>>)>>),
     NewAdd(<<NewMul(<<NewRationalPreserved(2, 1), X>>), Foo(X)>>)}

CalcInputs ==
    {NewInt(0), NewInt(2), X, Y, NewRationalPreserved(1, 2), NewFloat(<<1, 2>>),
     NewEq(X, NewInt(1), "EqEqual")}
    \cup XPowers \cup OtherPowers \cup OneArgFuncs \cup OtherFuncs \cup CalcProducts \cup CalcSums

\* the variable lists Gradient is called with
VariableLists == {<<>>, <<"x">>, <<"y">>, <<"x", "y">>, <<"y", "x">>, <<"x", "x">>,
                  <<"x", "y", "z">>}

\* a call of the differentiator returns res, an expression or an error
Differentiated(name, e, a, res) ==
    /\ op' = name
    /\ input' = e
    /\ args' = a
    /\ result' = res
    /\ pc' = IF res.t = "Panic" THEN "panic" ELSE "done"
    /\ again' = FALSE
    /\ prev' = None
    /\ current' = None
    /\ iteration' = 0
    /\ opts' = DefaultOptions
    /\ vars' = NoBinding
    /\ value' = NoValue
    /\ heap' = Memory(e, NoBinding)

DerivativeCall(e, variable, seed) ==
    /\ Ready
    /\ Differentiated("Derivative", e,
                      [variable |-> variable, n |-> 1, variables |-> <<>>, seed |-> seed],
                      Derivative(e, variable, seed))

NthDerivativeCall(e, variable, n, seed) ==
    /\ Ready
    /\ Differentiated("NthDerivative", e,
                      [variable |-> variable, n |-> n, variables |-> <<>>, seed |-> seed],
                      NthDerivative(e, variable, n, seed))

GradientCall(e, variables, seed) ==
    /\ Ready
    /\ Differentiated("Gradient", e,
                      [variable |-> "", n |-> 0, variables |-> variables, seed |-> seed],
                      Gradient(e, variables, seed))

NextCalculus ==
    \/ \E e \in CalcInputs, v \in {"x", "y"}, seed \in Seeds : DerivativeCall(e, v, seed)
    \/ \E e \in RepeatedInputs(CalcInputs), n \in (0 - 1)..MaxOrder, seed \in Seeds :
           NthDerivativeCall(e, "x", n, seed)
    \/ \E e \in CalcInputs, vs \in VariableLists, seed \in Seeds : GradientCall(e, vs, seed)
    \/ Reset

SpecCalculus == Init /\ [][NextCalculus]_vars_

(***************************************************************************)
(* Expand of both packages, and Collect of what Expand returned            *)
(***************************************************************************)
ExpandSums ==
    {NewAdd(<<X, NewInt(1)>>), NewAdd(<<X, Y>>),
     NewAdd(<<NewMul(<<NewInt(2), X>>), NewInt(0 - 1)>>)}

ExpandExponents ==
    {NewInt(n) : n \in {MinInt64, 0 - 2, 0 - 1, 0, 1, 2, 3, 4, 5, 9, 10, 11, 12, MaxInt64}}
    \cup {NewFloat(<<1, 2>>), NewFloat(<<5, 2>>), NewRationalPreserved(1, 2), Y}

\* powers of sums of two terms, and of a sum of three terms up to the square
SumPowers ==
    {NewPow(s, n) : s \in ExpandSums, n \in ExpandExponents}
    \cup {NewPow(NewAdd(<<X, Y, NewInt(1)>>), n) :
          n \in ExpandExponents \ {NewInt(3), NewInt(4)}}

ExpandProductInputs ==
    {NewMul(<<NewAdd(<<X, NewInt(1)>>), NewAdd(<<X, NewInt(2)>>)>>),
     NewMul(<<X, NewAdd(<<Y, NewInt(1)>>)>>),
     NewMul(<<NewAdd(<<X, NewInt(1)>>), NewAdd(<<Y, NewInt(2)>>), Z>>),
     NewMul(<<NewInt(2), NewAdd(<<X, Y>>)>>),
     NewMul(<<NewInt(2), X, NewAdd(<<X, Y>>), Y>>),
     NewMul(<<NewAdd(<<X, NewInt(1)>>), NewPow(NewAdd(<<X, NewInt(1)>>), NewInt(2))>>),
     NewMul(<<NewAdd(<<X, Y>>), NewAdd(<<X, NewInt(0 - 1)>>), NewAdd(<<Y, NewInt(3)>>)>>),
     NewPow(NewMul(<<X, Y>>), NewInt(2)),
     NewPow(NewMul(<<NewAdd(<<X, NewInt(1)>>), Y>>), NewInt(2)),
     NewAdd(<<NewMul(<<X, NewAdd(<<Y, NewInt(1)>>)>>), NewInt(3)>>),
     NewFunc("ln", <<NewMul(<<X, Y>>)>>), NewFunc("ln", <<NewPow(X, NewInt(2))>>),
     NewFunc("tan", <<X>>), NewFunc("sec", <<X>>), NewFunc("csc", <<X>>),
     NewFunc("cot", <<X>>), NewFunc("sqrt", <<NewMul(<<X, NewAdd(<<X, NewInt(1)>>)>>)>>),
     NewMul(<<X, Y>>), X, NewInt(3),
     NewMul(<<NewAdd(<<X, NewRationalPreserved(2, 1)>>), Y>>),
     NewPow(NewAdd(<<X, NewRationalPreserved(3, 1)>>), NewInt(2)),
     NewMul(<<X, NewAdd(<<NewInt(MaxInt64), NewInt(MaxInt64)>>)>>),
     NewMul(<<NewAdd(<<NewInt(MaxInt64), NewInt(1)>>), NewAdd(<<X, X>>)>>)}

ExpandInputs == SumPowers \cup ExpandProductInputs

MaxDegrees == {0 - 1, 0, 2, 3, DefaultMaxDegree, DefaultMaxDegree + 2}

ExpandOptionSet ==
    {[MaxDegree |-> d, ExpandLogs |-> FALSE, ExpandTrig |-> FALSE] : d \in MaxDegrees}
    \cup {[MaxDegree |-> DefaultMaxDegree, ExpandLogs |-> l, ExpandTrig |-> g] :
          l \in BOOLEAN, g \in BOOLEAN}

\* a call of expand.Expand with the options o returns res
expand_ExpandCall(e, o) ==
    /\ Ready
    /\ op' = "expand.Expand"
    /\ input' = e
    /\ opts' = o
    /\ result' = expand_Expand(e, o)
    /\ pc' = IF expand_Expand(e, o).t = "Panic" THEN "panic" ELSE "done"
    /\ again' = FALSE
    /\ prev' = None
    /\ current' = None
    /\ iteration' = 0
    /\ vars' = NoBinding
    /\ value' = NoValue
    /\ heap' = Memory(e, NoBinding)
    /\ args' = NoArgs

\* the caller hands what Expand returned to Collect
CollectExpanded(seed) ==
    /\ pc = "done"
    /\ op \in {"Expand", "expand.Expand"}
    /\ op' = "Collect(" \o op \o ")"
    /\ prev' = result
    /\ result' = Collect(result, seed)
    /\ pc' = IF Collect(result, seed).t = "Panic" THEN "panic" ELSE "done"
    /\ args' = [NoArgs EXCEPT !.seed = seed]
    /\ heap' = Memory(result, NoBinding)
    /\ UNCHANGED <<input, opts, current, iteration, again, vars, value>>

NextExpand ==
    \/ \E e \in ExpandInputs : ExpandCall(e)
    \/ \E e \in ExpandInputs, o \in ExpandOptionSet : expand_ExpandCall(e, o)
    \/ \E seed \in Seeds : CollectExpanded(seed)
    \/ Reset

SpecExpand == Init /\ [][NextExpand]_vars_

(***************************************************************************)
(* Normalize and Equal on sums and products built in different orders      *)
(***************************************************************************)
\* the children the sums and products are built from: two of them render to
\* the same string as another child of a different type
NormalizeChildren ==
    {X, Y, NewInt(2), NewInt(0 - 1), NewInt(10), NewFloat(<<1, 2>>), NewFloat(<<2, 1>>),
     NewAdd(<<X>>), NewAdd(<<X, Y>>), NewMul(<<NewInt(2), X>>), NewPow(X, NewInt(2)),
     NewFunc("sin", <<X>>)}

ChildLists ==
    {<<>>} \cup {<<a>> : a \in NormalizeChildren}
    \cup {<<a, b>> : a \in NormalizeChildren, b \in NormalizeChildren}
    \cup {<<a, b, c>> : a \in {X, NewInt(2), NewAdd(<<X>>)},
                       b \in {Y, NewInt(0 - 1), NewAdd(<<X, Y>>)},
                       c \in {X, NewInt(10), NewPow(X, NewInt(2))}}

NormalizeInputs ==
    {NewAdd(s) : s \in ChildLists} \cup {NewMul(s) : s \in ChildLists}
    \cup {X, NewInt(3), NewPow(NewAdd(<<Y, X>>), NewInt(2))}

\* the children of a sum or a product
Children(e) == IF e.t = "Add" THEN e.terms ELSE IF e.t = "Mul" THEN e.factors ELSE <<>>

\* the number of orders of a list of n children
RECURSIVE Factorial(_)
Factorial(n) == IF n <= 1 THEN 1 ELSE n * Factorial(n - 1)

\* the sum or product of the children of e in the k-th order
Rearranged(e, k) ==
    IF e.t = "Add" THEN NewAdd(Permute(e.terms, k))
    ELSE IF e.t = "Mul" THEN NewMul(Permute(e.factors, k))
    ELSE e

\* a second call of Normalize, on the expression the first one returned
NormalizeAgain ==
    /\ pc = "done"
    /\ op = "Normalize"
    /\ ~again
    /\ Returns("Normalize", result, Normalize(result), TRUE)

\* a call of Equal: the second argument is kept in current, the outcome is
\* the Boolean in result
EqualCall(a, b) ==
    /\ Ready
    /\ op' = "Equal"
    /\ input' = a
    /\ current' = b
    /\ result' = IF Equal(a, b) = "panic" THEN Panic
                 ELSE [t |-> "Bool", v |-> Equal(a, b) = "true"]
    /\ pc' = IF Equal(a, b) = "panic" THEN "panic" ELSE "done"
    /\ again' = FALSE
    /\ prev' = None
    /\ iteration' = 0
    /\ opts' = DefaultOptions
    /\ vars' = NoBinding
    /\ value' = NoValue
    /\ heap' = Memory(TreeAfterNormalize(a), NoBinding)
    /\ args' = NoArgs

NextNormalize ==
    \/ \E e \in NormalizeInputs : NormalizeCall(e)
    \/ NormalizeAgain
    \/ \E a \in NormalizeInputs :
           \E k \in 0..(Factorial(Len(Children(a))) - 1) : EqualCall(a, Rearranged(a, k))
    \/ \E a \in NormalizeInputs, b \in {X, NewAdd(<<X, Y>>), NewMul(<<Y, X>>)} : EqualCall(a, b)
    \/ Reset

SpecNormalize == Init /\ [][NextNormalize]_vars_

(***************************************************************************)
(* The Simplify method of the nodes (package ast)                          *)
(***************************************************************************)
\* the value of a string of decimal digits
RECURSIVE DigitsValue(_)
DigitsValue(s) == IF s = <<>> THEN 0 ELSE 10 * DigitsValue(SubSeq(s, 1, Len(s) - 1)) + (s[Len(s)] - 48)

\* the index of the first byte c of s, or Len(s) + 1
RECURSIVE IndexOf(_, _, _)
IndexOf(s, c, i) == IF i > Len(s) THEN i ELSE IF s[i] = c THEN i ELSE IndexOf(s, c, i + 1)

\* big.ParseFloat(s, 10, 256, ToNearestEven) of the texts Text('g', -1)
\* writes: sign, digits, fraction and decimal exponent are read back
\* exactly when the value has fewer than 256 bits
ParseFloat(s) ==
    LET neg == s # <<>> /\ s[1] = 45
        body == IF neg THEN Tail(s) ELSE s
        ePos == IndexOf(body, 101, 1)
        mant == SubSeq(body, 1, ePos - 1)
        expo == SubSeq(body, ePos + 1, Len(body))
        dot == IndexOf(mant, 46, 1)
        intPart == SubSeq(mant, 1, dot - 1)
        fracPart == SubSeq(mant, dot + 1, Len(mant))
        e10 == IF expo = <<>> THEN 0
               ELSE IF expo[1] = 45 THEN 0 - DigitsValue(Tail(expo))
               ELSE IF expo[1] = 43 THEN DigitsValue(Tail(expo))
               ELSE DigitsValue(expo)
        digits == DigitsValue(intPart \o fracPart)
        scale == e10 - Len(fracPart)
        val == IF scale >= 0 THEN Rat(digits * Pow10(scale), 1) ELSE Rat(digits, Pow10(0 - scale))
    IN IF neg THEN <<0 - val[1], val[2]>> ELSE val

\* NewFloatFromString(f.Text('g', -1)) of the result f of the numeric fold;
\* a zero denominator stands for an infinite Float
NumericFloat(f) ==
    IF f.k = "inf" THEN NewFloat(<<f.n, 0>>)
    ELSE NewFloat(ParseFloat(FloatText(<<f.n, f.d>>)))

\* Int.Simplify, Float.Simplify, Rational.Simplify, Var.Simplify: Clone
LeafSimplify(e) == IF HasNil(e) THEN Panic ELSE e

RECURSIVE ast_Simplify(_)

\* Add.Simplify: the numeric terms are added into one Float that goes first;
\* the other terms are kept as they are, in their order
AddSimplify(a) ==
    LET simplified == [i \in 1..Len(a.terms) |-> ast_Simplify(a.terms[i])]
        numericSum == FoldEval(EvOk(RInt(0)),
                               [i \in 1..Len(SelectSeq(simplified, isNumeric)) |->
                                   Eval(SelectSeq(simplified, isNumeric)[i], NoBinding)], TRUE)
        NotNumeric(t) == ~isNumeric(t)
        others == SelectSeq(simplified, NotNumeric)
        nonNumeric == IF EvSign(numericSum) # 0 THEN <<NumericFloat(numericSum)>> \o others
                      ELSE others
    IN IF \E i \in 1..Len(simplified) : simplified[i].t = "Panic" THEN Panic
       ELSE IF numericSum.k = "panic" THEN Panic
       ELSE IF Len(nonNumeric) = 0 THEN NewInt(0)
       ELSE IF Len(nonNumeric) = 1 THEN nonNumeric[1]
       ELSE NewAdd(nonNumeric)

\* Mul.Simplify: the numeric factors are multiplied into one Float that goes
\* first; a zero product gives 0, except for the product of exactly -1 and 0
MulSimplify(m) ==
    LET simplified == [i \in 1..Len(m.factors) |-> ast_Simplify(m.factors[i])]
        numericProduct == FoldEval(EvOk(RInt(1)),
                                   [i \in 1..Len(SelectSeq(simplified, isNumeric)) |->
                                       Eval(SelectSeq(simplified, isNumeric)[i], NoBinding)], FALSE)
        NotNumeric(t) == ~isNumeric(t)
        others == SelectSeq(simplified, NotNumeric)
        hasMinusOne == \E i \in 1..Len(simplified) :
                           simplified[i].t = "Int" /\ simplified[i].v = 0 - 1
        hasZero == \E i \in 1..Len(simplified) :
                       simplified[i].t = "Int" /\ simplified[i].v = 0
        nonNumeric == IF numericProduct.k = "ok" /\ EvVal(numericProduct) = RInt(1) THEN others
                      ELSE <<NumericFloat(numericProduct)>> \o others
    IN IF \E i \in 1..Len(simplified) : simplified[i].t = "Panic" THEN Panic
       ELSE IF numericProduct.k = "panic" THEN Panic
       ELSE IF EvSign(numericProduct) = 0
            THEN IF hasMinusOne /\ hasZero /\ Len(simplified) = 2 THEN MulOf(simplified)
                 ELSE NewInt(0)
       ELSE IF Len(nonNumeric) = 0 THEN NewInt(1)
       ELSE IF Len(nonNumeric) = 1 THEN nonNumeric[1]
       ELSE MulOf(nonNumeric)

\* Pow.Simplify: x^0 is 1, x^1 is x, (a^b)^c is a^(b*c)
PowSimplify(p) ==
    LET simplifiedBase == ast_Simplify(p.base)
        simplifiedExp == ast_Simplify(p.exponent)
    IN IF simplifiedBase.t = "Panic" \/ simplifiedExp.t = "Panic" THEN Panic
       ELSE IF simplifiedExp.t = "Int" /\ simplifiedExp.v = 0 THEN NewInt(1)
       ELSE IF simplifiedExp.t = "Int" /\ simplifiedExp.v = 1 THEN simplifiedBase
       ELSE IF simplifiedBase.t = "Pow"
            THEN NewPow(simplifiedBase.base,
                        ast_Simplify(NewMul(<<simplifiedBase.exponent, simplifiedExp>>)))
       ELSE NewPow(simplifiedBase, simplifiedExp)

\* Expr.Simplify()
ast_Simplify(e) ==
    CASE e.t = "Add" -> AddSimplify(e)
      [] e.t = "Mul" -> MulSimplify(e)
      [] e.t = "Pow" -> PowSimplify(e)
      [] e.t = "Func" ->
           LET simplifiedArgs == [i \in 1..Len(e.args) |-> ast_Simplify(e.args[i])]
           IN IF \E i \in 1..Len(simplifiedArgs) : simplifiedArgs[i].t = "Panic" THEN Panic
              ELSE NewFunc(e.name, simplifiedArgs)
      [] e.t = "Eq" ->
           LET simplifiedLeft == ast_Simplify(e.left)
               simplifiedRight == ast_Simplify(e.right)
           IN IF simplifiedLeft.t = "Panic" \/ simplifiedRight.t = "Panic" THEN Panic
              ELSE NewEq(simplifiedLeft, simplifiedRight, e.eqType)
      [] OTHER -> LeafSimplify(e)

(***************************************************************************)
(* Expr.Simplify, called once                                              *)
(***************************************************************************)
\* the tree the parser builds for t1 + t2 + ... + tn: NewAdd(left, right)
\* for each plus sign, from left to right
RECURSIVE ParsedSum(_)
ParsedSum(ts) ==
    IF Len(ts) = 1 THEN ts[1]
    ELSE NewAdd(<<ParsedSum(SubSeq(ts, 1, Len(ts) - 1)), ts[Len(ts)]>>)

MethodTerms ==
    {X, Y, NewInt(0), NewInt(1), NewInt(2), NewFloat(<<1, 2>>), NewFloat(<<0, 1>>),
     NewMul(<<X, NewInt(1)>>), NewMul(<<NewInt(0), Y>>), NewMul(<<NewInt(1), X>>),
     NewMul(<<NewInt(2), X>>), NewMul(<<X, Y>>), NewMul(<<NewInt(0 - 1), NewInt(0)>>),
     NewPow(X, NewInt(1)), NewPow(X, NewInt(0)), NewPow(X, NewInt(2)),
     NewPow(NewPow(X, NewInt(2)), NewInt(3)), NewFunc("sin", <<NewAdd(<<X, NewInt(0)>>)>>)}

\* x + 0 + x*1 + 0*y and x + 0 + x*1
TutorialSum ==
    ParsedSum(<<X, NewInt(0), NewMul(<<X, NewInt(1)>>), NewMul(<<NewInt(0), Y>>)>>)
TipSum == ParsedSum(<<X, NewInt(0), NewMul(<<X, NewInt(1)>>)>>)

MethodInputs ==
    MethodTerms
    \cup {ParsedSum(<<a, b>>) : a \in MethodTerms, b \in MethodTerms}
    \cup {NewAdd(<<a, b, c>>) : a \in {X, NewInt(2)}, b \in {NewInt(0), NewMul(<<X, NewInt(1)>>), Y},
                               c \in {NewInt(0 - 2), X, NewMul(<<NewInt(0), Y>>)}}
    \cup {NewMul(<<a, b, c>>) : a \in {X, NewInt(2)}, b \in {NewInt(0), NewInt(1), Y},
                               c \in {NewFloat(<<1, 2>>), X, NewAdd(<<NewInt(0), Y>>)}}
    \cup {TutorialSum, TipSum, NilInt, NewAdd(<<X, NilInt>>),
          NewEq(NewAdd(<<X, NewInt(0)>>), NewMul(<<NewInt(1), Y>>), "EqEqual")}

MethodSimplifyCall(e) ==
    /\ Ready
    /\ Returns("Expr.Simplify", e, ast_Simplify(e), FALSE)

NextMethod ==
    \/ \E e \in MethodInputs : MethodSimplifyCall(e)
    \/ Reset

SpecMethod == Init /\ [][NextMethod]_vars_

(***************************************************************************)
(* String and LaTeX, each called once                                      *)
(***************************************************************************)
\* terms whose rendering starts with a minus sign, with a backslash, with a
\* parenthesis, and others
RenderTerms ==
    {X, Y, NewInt(0 - 1), NewInt(2), NewInt(0), NewFloat(<<0 - 1, 2>>), NewFloat(<<3, 2>>),
     NewRationalPreserved(0 - 1, 2), NewRationalPreserved(0 - 3, 1),
     NewMul(<<NewInt(0 - 1), X>>), NewMul(<<NewInt(2), X>>),
     NewMul(<<NewAdd(<<X, Y>>), NewInt(2)>>), NewPow(X, NewInt(2)),
     NewPow(NewInt(0 - 1), NewInt(2)), NewAdd(<<X, Y>>), NewAdd(<<NewInt(0 - 1), X>>),
     NewFunc("sqrt", <<X>>), NewFunc("sin", <<NewInt(0 - 1)>>)}

RenderInputs ==
    {NewAdd(<<a, b>>) : a \in RenderTerms, b \in RenderTerms}
    \cup {NewAdd(<<a, b, c>>) : a \in {X, NewInt(0 - 1)},
                               b \in {Y, NewInt(0 - 2), NewMul(<<NewInt(0 - 1), X>>)},
                               c \in {X, NewInt(0 - 3), NewRationalPreserved(0 - 1, 2)}}
    \cup {NewAdd(<<>>), NewAdd(<<NewInt(0 - 1)>>), X, NewMul(<<X, NewInt(0 - 1)>>),
          NewEq(X, NewInt(0 - 1), "EqLessEqual")}

\* a rendering call returns the text res
Rendered(name, e, res) ==
    /\ op' = name
    /\ input' = e
    /\ result' = [t |-> "Text", bytes |-> res]
    /\ pc' = "done"
    /\ again' = FALSE
    /\ prev' = None
    /\ current' = None
    /\ iteration' = 0
    /\ opts' = DefaultOptions
    /\ vars' = NoBinding
    /\ value' = NoValue
    /\ heap' = Memory(e, NoBinding)
    /\ args' = NoArgs

StringCall(e) ==
    /\ Ready
    /\ Rendered("String", e, String(e))

LaTeXCall(e) ==
    /\ Ready
    /\ Rendered("LaTeX", e, LaTeX(e))

NextRender ==
    \/ \E e \in RenderInputs : StringCall(e)
    \/ \E e \in RenderInputs : LaTeXCall(e)
    \/ Reset

SpecRender == Init /\ [][NextRender]_vars_

(***************************************************************************)
(* Properties of the Simplify driver                                       *)
(***************************************************************************)
\* C3: every call of Simplify leaves its loop: the loop never runs with more
\* than MaxIterations completed rounds behind it, a loop that has used up
\* its rounds returns the expression the last completed round produced
\* (current), and a call inside the loop eventually returns or aborts,
\* even when every round changes the expression
C3_TerminatesByCap ==
    /\ [](pc = "loop" => iteration <= opts.MaxIterations)
    /\ [][(pc = "loop" /\ iteration >= opts.MaxIterations /\ pc' # "loop")
            => (pc' = "done" /\ result' = current /\ iteration' = iteration)]_vars_
    /\ [][(pc = "loop" /\ pc' = "loop" /\ current' # current)
            => iteration' = iteration + 1]_vars_
    /\ (pc = "loop") ~> (pc \in {"done", "panic"})

\* a call under the default options whose rounds alternated between a sum and
\* a product until the cap ended it
C3_CapReached ==
    /\ pc = "done"
    /\ op = "Simplify"
    /\ opts = DefaultOptions
    /\ iteration = DefaultMaxIterations
    /\ input.t = "Add"
    /\ result = input
    /\ SimplifyStep(result, 0, 0).t = "Mul"

\* C1: the expression Simplify returns evaluates to the same number as the
\* expression it was called on, at every binding under which both evaluate
\* without error
C1_ValuePreserved ==
    (pc = "done" /\ op = "Simplify") =>
        \A b \in Bindings :
            LET before == Eval(input, b)
                after == Eval(result, b)
            IN (before.k = "ok" /\ after.k = "ok")
                   => before.n * after.d = after.n * before.d

\* C2: Simplify called under the default options on the result of a Simplify
\* call returns an expression that renders to the same string as that result
C2_Idempotent ==
    (pc = "done" /\ op = "Simplify" /\ again) => String(result) = String(prev)

\* C7: Simplify of the sum of two Int leaves a and b renders as the decimal
\* digits of a + b
C7_IntegerFold ==
    (pc \in {"done", "panic"} /\ op = "Simplify" /\ ~again /\ input \in IntSums) =>
        /\ pc = "done"
        /\ String(result) = BigIntString(input.terms[1].v + input.terms[2].v)

(***************************************************************************)
(* Properties of Rational                                                  *)
(***************************************************************************)
\* C10: a reducing constructor called with a nonzero denominator returns a
\* Rational whose numerator and denominator have no common divisor above 1,
\* whose denominator is positive, and whose value is num/den
C10_RationalInvariant ==
    (op \in {"NewRational", "NewRationalFromInts"} /\ input.den # 0) =>
        /\ pc = "done"
        /\ result.t = "Rational"
        /\ result.den > 0
        /\ \A k \in 2..(MaxRat + 1) : ~(result.num % k = 0 /\ result.den % k = 0)
        /\ result.num * input.den = input.num * result.den

\* NewRational(6, -4) has returned -3/2
C10_ReducedNegative ==
    /\ pc = "done"
    /\ op = "NewRational"
    /\ input.num = 6
    /\ input.den = 0 - 4
    /\ result = NewRationalPreserved(0 - 3, 2)

(***************************************************************************)
(* Properties of Collect, Factor, Expand and Normalize                     *)
(***************************************************************************)
\* C4: Simplify, Collect, Factor, Expand and Normalize return on every
\* expression, and what they return evaluates without aborting under every
\* binding
C4_Total ==
    (pc # "idle" /\ op \in {"Simplify", "Collect", "Factor", "Expand", "Normalize"}) =>
        /\ pc = "done"
        /\ \A b \in Bindings : Eval(result, b).k # "panic"

\* the sums C6 speaks of: every term is a numeric leaf, a variable, or an
\* Int times a variable
C6_FlatSum(e) ==
    /\ e.t = "Add"
    /\ Len(e.terms) >= 1
    /\ \A i \in 1..Len(e.terms) :
          \/ isNumeric(e.terms[i])
          \/ e.terms[i].t = "Var"
          \/ /\ e.terms[i].t = "Mul"
             /\ Len(e.terms[i].factors) = 2
             /\ e.terms[i].factors[1].t = "Int"
             /\ e.terms[i].factors[2].t = "Var"

\* the split of a term into base and coefficient that C6 describes: a
\* numeric leaf has base "1", a product of a numeric leaf and a base has the
\* leaf as coefficient, any other term is its own base with coefficient 1
C6_IsScaled(term) ==
    term.t = "Mul" /\ Len(term.factors) = 2 /\ isNumeric(term.factors[1])

C6_Base(term) ==
    IF isNumeric(term) THEN <<49>>
    ELSE IF C6_IsScaled(term) THEN String(term.factors[2]) ELSE String(term)

C6_Coeff(term) ==
    IF isNumeric(term) THEN NumVal(term)
    ELSE IF C6_IsScaled(term) THEN NumVal(term.factors[1]) ELSE RInt(1)

RECURSIVE C6_GroupSum(_, _)
C6_GroupSum(terms, base) ==
    IF terms = <<>> THEN RInt(0)
    ELSE RAdd(IF C6_Base(terms[1]) = base THEN C6_Coeff(terms[1]) ELSE RInt(0),
              C6_GroupSum(Tail(terms), base))

\* the groups of a list of terms whose coefficients do not sum to 0
C6_Groups(terms) ==
    {g \in {<<C6_Base(terms[i]), C6_GroupSum(terms, C6_Base(terms[i]))>> :
                i \in 1..Len(terms)} : g[2] # RInt(0)}

\* C6: Collect on a sum of numeric leaves, variables and Int multiples of
\* variables returns one term for every base whose coefficients do not sum
\* to 0, carrying the sum of the coefficients of that base, with every
\* numeric leaf counted under base 1; it returns 0 when every group cancels,
\* and x+x+x collects to "3*x"
C6_CollectSum ==
    (pc # "idle" /\ op = "Collect" /\ C6_FlatSum(input)) =>
        /\ pc = "done"
        /\ LET expected == C6_Groups(input.terms)
               resultTerms == IF result.t = "Add" THEN result.terms ELSE <<result>>
           IN IF expected = {} THEN result = NewInt(0)
              ELSE /\ ~HasNil(result)
                   /\ C6_Groups(resultTerms) = expected
                   /\ Len(resultTerms) = Cardinality(expected)
        /\ input = NewAdd(<<X, X, X>>) => String(result) = <<51, 42, 120>>

\* the integer coefficient of a term of a sum: an Int term is its own
\* coefficient, a product has the product of its Int factors, any other term 1
RECURSIVE C8_IntProduct(_)
C8_IntProduct(factors) ==
    IF factors = <<>> THEN 1
    ELSE (IF factors[1].t = "Int" THEN factors[1].v ELSE 1) * C8_IntProduct(Tail(factors))

C8_Coeff(term) ==
    IF term.t = "Int" THEN term.v
    ELSE IF term.t = "Mul" THEN C8_IntProduct(term.factors) ELSE 1

\* no Float or Rational takes part in the coefficient of the term
C8_IntegerCoeff(term) ==
    IF term.t = "Mul"
    THEN \A i \in 1..Len(term.factors) : term.factors[i].t \notin {"Float", "Rational"}
    ELSE term.t \notin {"Float", "Rational"}

RECURSIVE C8_Gcd(_)
C8_Gcd(terms) ==
    IF terms = <<>> THEN 0 ELSE GCD(C8_Coeff(terms[1]), C8_Gcd(Tail(terms)))

\* res is g times the sum e with every coefficient divided by g when the
\* coefficients of e are integers with gcd g > 1, and is e otherwise
C8_Factored(e, res) ==
    LET g == C8_Gcd(e.terms)
    IN IF g > 1 /\ \A i \in 1..Len(e.terms) : C8_IntegerCoeff(e.terms[i])
       THEN /\ res.t = "Mul"
            /\ Len(res.factors) = 2
            /\ res.factors[1] = NewInt(g)
            /\ LET reduced == IF res.factors[2].t = "Add" THEN res.factors[2].terms
                              ELSE <<res.factors[2]>>
               IN /\ Len(reduced) = Len(e.terms)
                  /\ \A i \in 1..Len(reduced) : g * C8_Coeff(reduced[i]) = C8_Coeff(e.terms[i])
            /\ \A b \in Bindings :
                  LET before == Eval(e, b)
                      after == Eval(res, b)
                  IN /\ before.k = after.k
                     /\ before.k = "ok" => before.n * after.d = after.n * before.d
       ELSE res = e

TwoXPlusFourY == NewAdd(<<NewMul(<<NewInt(2), X>>), NewMul(<<NewInt(4), Y>>)>>)

C9_CollectDeterministic ==
    (pc = "done" /\ op = "Collect") =>
        /\ again => String(result) = String(prev)
        /\ input = NewAdd(<<NewMul(<<NewInt(2), X>>), NewMul(<<NewInt(3), X>>), NewInt(1)>>)
              => String(result) = <<53, 42, 120, 43, 49>>

(***************************************************************************)
(* Properties of Eval                                                      *)
(***************************************************************************)
\* C5: Eval returns a finite value or an error: it does not abort and it
\* does not return an infinity
C5_EvalFiniteOrError ==
    (pc # "idle" /\ op = "Eval") =>
        /\ pc = "done"
        /\ value.k \in {"ok", "approx", "err"}

RECURSIVE C12_IsMonomial(_)
C12_IsMonomial(r) ==
    CASE isNumeric(r) -> ~HasNil(r)
      [] r.t = "Var" -> r.name = "x"
      [] r.t = "Pow" -> /\ r.base = X
                        /\ isNumeric(r.exponent) /\ ~HasNil(r.exponent)
                        /\ RIsInt(NumVal(r.exponent))
      [] r.t = "Mul" -> \A i \in 1..Len(r.factors) : C12_IsMonomial(r.factors[i])
      [] OTHER -> FALSE

\* the product of the numbers of a monomial
RECURSIVE C12_Coefficient(_)
C12_Coefficient(r) ==
    CASE isNumeric(r) -> NumVal(r)
      [] r.t = "Mul" ->
           IF r.factors = <<>> THEN RInt(1)
           ELSE RMul(C12_Coefficient(r.factors[1]), C12_Coefficient(MulOf(Tail(r.factors))))
      [] OTHER -> RInt(1)

\* the sum of the exponents x carries in a monomial
RECURSIVE C12_Degree(_)
C12_Degree(r) ==
    CASE r.t = "Var" -> 1
      [] r.t = "Pow" -> NumVal(r.exponent)[1]
      [] r.t = "Mul" ->
           IF r.factors = <<>> THEN 0
           ELSE C12_Degree(r.factors[1]) + C12_Degree(MulOf(Tail(r.factors)))
      [] OTHER -> 0

\* the expression denotes n * x^(n-1)
C12_DenotesPower(r, n) ==
    /\ C12_IsMonomial(r)
    /\ C12_Coefficient(r) = RInt(n)
    /\ n # 0 => C12_Degree(r) = n - 1

\* C12: the derivative of a power whose exponent does not contain the
\* variable is the collected form of exponent * base^(exponent - 1) * base',
\* and the derivative of x^n with respect to x denotes n * x^(n-1) for every
\* integer n
C12_PowerRule ==
    (pc # "idle" /\ op = "Derivative" /\ input.t = "Pow"
       /\ ~containsVariable(input.exponent, args.variable)) =>
        LET Ruled(basePrime) ==
                Failed(basePrime) \/
                result = Collect(NewMul(<<input.exponent,
                                          NewPow(input.base,
                                                 NewAdd(<<input.exponent, NewInt(0 - 1)>>)),
                                          basePrime>>), args.seed)
        IN /\ Ruled(Derivative(input.base, args.variable, args.seed))
           /\ (input \in XPowers /\ args.variable = "x") =>
                  (pc = "done" /\ C12_DenotesPower(result, input.exponent.v))

\* 1/e, -e and e^2 as expressions
C13_Inverse(e) == NewPow(e, NewInt(0 - 1))
C13_Minus(e) == MulOf(<<NewInt(0 - 1), e>>)
C13_Square(e) == NewPow(e, NewInt(2))
C13_Apply(name, u) == NewFunc(name, <<u>>)

\* the derivative of each elementary function at u, from the table of
\* derivatives of calculus
C13_OuterDerivative(name, u) ==
    CASE name = "sin" -> C13_Apply("cos", u)
      [] name = "cos" -> C13_Minus(C13_Apply("sin", u))
      [] name = "tan" -> C13_Inverse(C13_Square(C13_Apply("cos", u)))
      [] name = "sec" -> MulOf(<<C13_Apply("sec", u), C13_Apply("tan", u)>>)
      [] name = "csc" -> MulOf(<<NewInt(0 - 1), C13_Apply("csc", u), C13_Apply("cot", u)>>)
      [] name = "cot" -> C13_Minus(C13_Square(C13_Apply("csc", u)))
      [] name = "arcsin" ->
           C13_Inverse(C13_Apply("sqrt", NewAdd(<<NewInt(1), C13_Minus(C13_Square(u))>>)))
      [] name = "arccos" ->
           C13_Minus(C13_Inverse(
               C13_Apply("sqrt", NewAdd(<<NewInt(1), C13_Minus(C13_Square(u))>>))))
      [] name = "arctan" -> C13_Inverse(NewAdd(<<NewInt(1), C13_Square(u)>>))
      [] name = "sinh" -> C13_Apply("cosh", u)
      [] name = "cosh" -> C13_Apply("sinh", u)
      [] name = "tanh" -> C13_Inverse(C13_Square(C13_Apply("cosh", u)))
      [] name = "ln" -> C13_Inverse(u)
      [] name = "log" -> C13_Inverse(MulOf(<<u, C13_Apply("ln", NewInt(10))>>))
      [] name = "exp" -> C13_Apply("exp", u)
      [] name = "sqrt" ->
           MulOf(<<NewRationalPreserved(1, 2),
                   NewPow(u, C13_Minus(NewRationalPreserved(1, 2)))>>)
      [] name = "abs" -> MulOf(<<u, C13_Inverse(C13_Apply("abs", u))>>)

\* the value at x = a of the derivative with respect to x of ln(u), abs(u)
\* and sqrt(u), for u one of the arguments the calls are made with: <<>> where
\* the function or its derivative is not defined (or is not rational)
C13_MathDerivative(name, u, a) ==
    LET ua == CASE u = X -> a
                [] u = NewPow(X, NewInt(2)) -> a * a
                [] u = NewMul(<<NewInt(2), X>>) -> 2 * a
                [] OTHER -> 2
        uPrime == CASE u = X -> 1
                    [] u = NewPow(X, NewInt(2)) -> 2 * a
                    [] u = NewMul(<<NewInt(2), X>>) -> 2
                    [] OTHER -> 0
    IN CASE name = "ln" -> IF ua > 0 THEN <<Rat(uPrime, ua)>> ELSE <<>>
         [] name = "abs" -> IF ua # 0 THEN <<RInt(Sign(ua) * uPrime)>> ELSE <<>>
         [] name = "sqrt" ->
              IF ua > 0 /\ IsSquare(ua) THEN <<Rat(uPrime, 2 * ISqrt(ua, 0))>> ELSE <<>>
         [] OTHER -> <<>>

\* the value of r at x = a is the mathematical derivative, where there is one
C13_ValueAt(r, name, u, a) ==
    LET Same(expected, got) ==
            expected = <<>> \/ (got.k = "ok" /\ <<got.n, got.d>> = expected[1])
    IN Same(C13_MathDerivative(name, u, a),
            Eval(r, [v \in VarNames |-> IF v = "x" THEN RInt(a) ELSE RInt(2)]))

\* r is a product with the factor cos(x^2) whose other factors denote 2*x
C13_CosTimesTwoX(r) ==
    /\ r.t = "Mul"
    /\ \E i \in 1..Len(r.factors) :
           /\ r.factors[i] = NewFunc("cos", <<NewPow(X, NewInt(2))>>)
           /\ C12_DenotesPower(MulOf([j \in 1..(Len(r.factors) - 1) |->
                                         IF j < i THEN r.factors[j] ELSE r.factors[j + 1]]),
                               2)

\* C13: the derivative of a function of the table applied to one argument u
\* is the collected product of the table's derivative at u and the derivative
\* of u; for ln, abs and sqrt its value at a point is the value of the
\* mathematical derivative wherever that is defined; the derivative of sin(x^2) is a
\* product of cos(x^2) and factors that denote 2*x
C13_ChainRule ==
    (pc # "idle" /\ op = "Derivative" /\ input.t = "Func" /\ Len(input.args) = 1
       /\ input.name \in TableNames) =>
        LET Chained(argPrime) ==
                Failed(argPrime) \/
                /\ pc = "done"
                /\ result = Collect(MulOf(<<C13_OuterDerivative(input.name, input.args[1]),
                                            argPrime>>), args.seed)
                /\ args.variable = "x" =>
                       \A a \in {0 - 3, 2} :
                           C13_ValueAt(result, input.name, input.args[1], a)
                /\ (input = NewFunc("sin", <<NewPow(X, NewInt(2))>>)
                      /\ args.variable = "x") => C13_CosTimesTwoX(result)
        IN Chained(Derivative(input.args[1], args.variable, args.seed))

\* the derivative of sin(x^2) with respect to x has been returned
C13_SinOfSquare ==
    /\ pc = "done"
    /\ op = "Derivative"
    /\ input = NewFunc("sin", <<NewPow(X, NewInt(2))>>)
    /\ args.variable = "x"
    /\ result.t = "Mul"

\* the product of the factors with the i-th one replaced by its derivative
C14_Replaced(factors, derivs, i) ==
    NewMul([j \in 1..Len(factors) |-> IF j = i THEN derivs[i] ELSE factors[j]])

\* the value of the sum over i of the products with one factor replaced by
\* its derivative, from the values of the factors and of their derivatives
RECURSIVE C14_SumOfProducts(_, _, _)
C14_SumOfProducts(vals, primes, i) ==
    IF i > Len(vals) THEN RInt(0)
    ELSE RAdd(NumProduct([j \in 1..Len(vals) |->
                             IF j = i THEN NewFloat(primes[i]) ELSE NewFloat(vals[j])]),
              C14_SumOfProducts(vals, primes, i + 1))

\* the binding the values are compared at
C14_Point == [v \in VarNames |-> IF v = "x" THEN RInt(2) ELSE RInt(0 - 3)]

\* r evaluates to the sum of products, when the factors and their
\* derivatives evaluate to finite values
C14_SameValue(r, factors, derivs) ==
    LET Finite(vals) == \A i \in 1..Len(vals) : vals[i].k = "ok"
        Pairs(vals) == [i \in 1..Len(vals) |-> <<vals[i].n, vals[i].d>>]
        Same(vals, primes, got) ==
            (Finite(vals) /\ Finite(primes)) =>
                /\ got.k = "ok"
                /\ <<got.n, got.d>> = C14_SumOfProducts(Pairs(vals), Pairs(primes), 1)
    IN Same([i \in 1..Len(factors) |-> Eval(factors[i], C14_Point)],
            [i \in 1..Len(derivs) |-> Eval(derivs[i], C14_Point)],
            Eval(r, C14_Point))

\* C14: the derivative of a product of n factors is the collected sum over i
\* of the product with the i-th factor replaced by its derivative, and it
\* evaluates to that sum; it is the derivative of the factor when n = 1 and
\* 0 when n = 0
C14_ProductRule ==
    (pc # "idle" /\ op = "Derivative" /\ input.t = "Mul" /\ ~HasNil(input)) =>
        LET factors == input.factors
            Ruled(derivs) ==
                (FirstFailed(derivs).t # "None") \/
                /\ result =
                     CASE Len(factors) = 0 -> NewInt(0)
                       [] Len(factors) = 1 -> derivs[1]
                       [] OTHER ->
                            Collect(NewAdd([i \in 1..Len(factors) |->
                                               C14_Replaced(factors, derivs, i)]),
                                    args.seed)
                /\ pc = "done" => C14_SameValue(result, factors, derivs)
        IN Ruled([i \in 1..Len(factors) |->
                     Derivative(factors[i], args.variable, args.seed)])

\* the derivative of a product of three or more factors has been returned
C14_ManyFactors ==
    /\ pc = "done"
    /\ op = "Derivative"
    /\ input.t = "Mul"
    /\ Len(input.factors) > 2
    /\ result.t \in {"Add", "Mul"}

\* differentiation reaches a Func outside the table, or one that has not
\* exactly one argument, in e: the search follows the rules, which
\* differentiate the children of a node in order and stop at the first one
\* that fails
RECURSIVE C15_Reaches(_, _, _)
C15_Reaches(e, variable, seed) ==
    LET Among(es) ==
            \E i \in 1..Len(es) :
                /\ C15_Reaches(es[i], variable, seed)
                /\ \A j \in 1..(i - 1) : ~Failed(Derivative(es[j], variable, seed))
    IN CASE e.t = "Func" ->
              \/ Len(e.args) # 1
              \/ e.name \notin TableNames
              \/ C15_Reaches(e.args[1], variable, seed)
         [] e.t = "Add" -> Among(e.terms)
         [] e.t = "Mul" -> Among(e.factors)
         [] e.t = "Pow" ->
              IF ~containsVariable(e.exponent, variable) THEN Among(<<e.base>>)
              ELSE IF ~containsVariable(e.base, variable) THEN Among(<<e.exponent>>)
              ELSE Among(<<e.base, e.exponent>>)
         [] OTHER -> FALSE

\* C15: when differentiation reaches a Func whose name the table does not
\* list or that has not exactly one argument, Derivative returns an error:
\* it does not abort and it returns no expression, whatever encloses the
\* Func and whether or not its argument contains the variable
C15_UnsupportedIsError ==
    (pc # "idle" /\ op = "Derivative" /\ C15_Reaches(input, args.variable, args.seed)) =>
        /\ pc = "done"
        /\ result.t = "Error"

\* Derivative applied k times in succession to e, or the first failure
RECURSIVE C16_Successive(_, _, _, _)
C16_Successive(e, variable, k, seed) ==
    LET Again(before) ==
            IF Failed(before) THEN before ELSE Derivative(before, variable, seed)
    IN IF k = 0 THEN e ELSE Again(C16_Successive(e, variable, k - 1, seed))

\* C16: NthDerivative with a negative order returns an error and
\* differentiates nothing; with order 0 it returns the expression it was
\* given, differentiable or not; with order n > 0 it returns what n
\* successive applications of Derivative return, or the error of the first
\* application that fails and no expression
C16_NthDerivative ==
    (pc # "idle" /\ op = "NthDerivative") =>
        /\ args.n < 0 => (pc = "done" /\ result = Error("negative order"))
        /\ args.n = 0 => (pc = "done" /\ result = input)
        /\ args.n > 0 => result = C16_Successive(input, args.variable, args.n, args.seed)
        /\ (args.n > 0 /\ \E k \in 1..args.n :
                C16_Successive(input, args.variable, k, args.seed).t = "Error") =>
               (pc = "done" /\ result.t = "Error")

\* the second derivative of x^3 has been returned and denotes 6*x
C16_SecondDerivative ==
    /\ pc = "done"
    /\ op = "NthDerivative"
    /\ args.n = 2
    /\ input = NewPow(X, NewInt(3))
    /\ C12_IsMonomial(result)
    /\ C12_Coefficient(result) = RInt(6)
    /\ C12_Degree(result) = 1

\* C17: Gradient returns a map with an entry for each element of the list of
\* variables and for nothing else, the entry of v being Derivative(e, v);
\* when one of those derivatives returns an error the call returns an error
\* that names the variable, and no map
C17_Gradient ==
    (pc # "idle" /\ op = "Gradient") =>
        LET vs == args.variables
            Mapped(partials, failed) ==
                CASE failed.t = "None" ->
                       /\ pc = "done"
                       /\ result.t = "Gradient"
                       /\ DOMAIN result.entries = {vs[i] : i \in 1..Len(vs)}
                       /\ \A i \in 1..Len(vs) : result.entries[vs[i]] = partials[i]
                  [] failed.t = "Error" ->
                       /\ pc = "done"
                       /\ result.t = "Error"
                       /\ \E i \in 1..Len(vs) :
                              /\ partials[i] = failed
                              /\ result.variable = vs[i]
                              /\ result.cause = failed.msg
                  [] OTHER -> pc = "panic"
            Each(partials) == Mapped(partials, FirstFailed(partials))
        IN Each([i \in 1..Len(vs) |-> Derivative(input, vs[i], args.seed)])

\* a gradient with two different partial derivatives has been returned
C17_TwoPartials ==
    /\ pc = "done"
    /\ op = "Gradient"
    /\ args.variables = <<"x", "y">>
    /\ result.t = "Gradient"
    /\ result.entries["x"] # result.entries["y"]

(***************************************************************************)
(* Properties of Collect on products and powers                            *)
(***************************************************************************)
\* the product of the numeric factors of a product, nested products included
C18_NumericPart(e) == NumProduct(SelectTerms(flattenMul(e), TRUE))

\* C18: Collect on a product whose numeric factors multiply to zero returns
\* 0, except that the product of exactly the two factors -1 and 0 is
\* returned as it is
C18_ZeroProduct ==
    (pc # "idle" /\ op = "Collect" /\ input.t = "Mul" /\ C18_NumericPart(input)[1] = 0) =>
        /\ pc = "done"
        /\ result = IF input.factors = <<NewInt(0 - 1), NewInt(0)>> THEN input
                    ELSE NewInt(0)

\* f is a number, a variable, or a variable raised to an integer
C19_IsPowerOfVar(f) ==
    \/ isNumeric(f) /\ ~HasNil(f)
    \/ f.t = "Var"
    \/ f.t = "Pow" /\ f.base.t = "Var" /\ f.exponent.t = "Int" /\ ~f.exponent.nil

\* the sum of the exponents the variable v carries among the factors fs
RECURSIVE C19_ExponentSum(_, _)
C19_ExponentSum(fs, v) ==
    IF fs = <<>> THEN 0
    ELSE (CASE fs[1] = NewVar(v) -> 1
            [] fs[1].t = "Pow" /\ fs[1].base = NewVar(v) -> fs[1].exponent.v
            [] OTHER -> 0)
         + C19_ExponentSum(Tail(fs), v)

\* the factors of a collected product: of a product its factors, of the
\* number 1 none, of anything else the expression itself
C19_Factors(r) ==
    IF r.t = "Mul" THEN r.factors
    ELSE IF r = NewInt(1) THEN <<>>
    ELSE <<r>>

\* the factor f is the variable v raised to n
C19_IsPower(f, v, n) ==
    IF n = 1 THEN f = NewVar(v)
    ELSE /\ f.t = "Pow"
         /\ f.base = NewVar(v)
         /\ isNumeric(f.exponent) /\ ~HasNil(f.exponent)
         /\ NumVal(f.exponent) = RInt(n)

\* the factors rs are the coefficient c first, unless c is 1, and one power
\* for each variable whose exponents in fs do not sum to 0
C19_Collected(rs, fs, c) ==
    LET vs == {v \in VarNames : C19_ExponentSum(fs, v) # 0}
        lead == IF c = RInt(1) THEN 0 ELSE 1
    IN /\ Len(rs) = lead + Cardinality(vs)
       /\ lead = 1 => (isNumeric(rs[1]) /\ ~HasNil(rs[1]) /\ NumVal(rs[1]) = c)
       /\ \A v \in vs :
              \E i \in (lead + 1)..Len(rs) : C19_IsPower(rs[i], v, C19_ExponentSum(fs, v))

\* C19: Collect on a product of numbers, variables and integer powers of
\* variables whose numbers do not multiply to zero returns the product of
\* all the numbers as one coefficient placed first (left out when it is 1)
\* and, for each variable, one power whose exponent is the sum of the
\* exponents of that variable (a bare variable counting 1), left out when
\* that sum is 0; x*x*x collects to x^3 and 1*x*1 to x
C19_MergedPowers ==
    (pc # "idle" /\ op = "Collect" /\ input.t = "Mul"
       /\ (\A i \in 1..Len(flattenMul(input)) : C19_IsPowerOfVar(flattenMul(input)[i]))
       /\ C18_NumericPart(input)[1] # 0) =>
        /\ pc = "done"
        /\ C19_Collected(C19_Factors(result), flattenMul(input), C18_NumericPart(input))
        /\ Len(C19_Factors(result)) > 1 => result.t = "Mul"
        /\ input = NewMul(<<X, X, X>>) => String(result) = <<120, 94, 51>>
        /\ input = NewMul(<<NewInt(1), X, NewInt(1)>>) => result = X

\* the power of base a and exponent e after the rules for the exponents 0
\* and 1
C20_Reduced(a, e) ==
    IF HasNil(e) \/ HasNil(a) THEN None
    ELSE IF isZero(e) THEN NewInt(1)
    ELSE IF isOne(e) THEN a
    ELSE NewPow(a, e)

\* the power of the collected base b and the collected exponent c, a base
\* that is a power being merged with the exponent first
C20_Merged(b, c, seed) ==
    IF b.t = "Panic" \/ c.t = "Panic" THEN None
    ELSE IF b.t = "Pow"
    THEN C20_Reduced(b.base, Collect(NewMul(<<b.exponent, c>>), seed))
    ELSE C20_Reduced(b, c)

\* C20: Collect on a power returns a^(b*c) for a base that collects to the
\* power a^b, with the product b*c collected, and the power of the collected
\* base and exponent otherwise; in both cases the result is 1 when the
\* exponent that results is 0 and the base when it is 1
C20_PowerOfPower ==
    (pc # "idle" /\ op = "Collect" /\ input.t = "Pow") =>
        /\ pc = "done"
        /\ \E seed \in Seeds :
               LET Merged(parts) == result = C20_Merged(parts[1], parts[2], seed)
               IN Merged([i \in 1..2 |->
                             Collect(IF i = 1 THEN input.base ELSE input.exponent, seed)])

(***************************************************************************)
(* Expand on a power of a sum                                              *)
(***************************************************************************)
\* the bound on the exponent a call of Expand works with: simplify.Expand has
\* no option for it
C21_MaxDegree == IF op = "expand.Expand" THEN opts.MaxDegree ELSE DefaultMaxDegree

\* the result is the power, not multiplied out
C21_Unexpanded ==
    /\ result.t = "Pow"
    /\ result.base.t = "Add"
    /\ result.exponent = input.exponent

\* the result is the sum multiplied out: 1 for the exponent 0, a sum otherwise
C21_Expanded ==
    IF input.exponent.v = 0 THEN result = NewInt(1) ELSE result.t = "Add"

\* C21: Expand replaces (sum)^n by an expanded sum for every integer exponent
\* n with 0 <= n <= max_degree, and returns the power unexpanded when n is
\* negative, not an integer, or greater than max_degree
C21_ExpandPower ==
    (pc # "idle" /\ op \in {"Expand", "expand.Expand"}
     /\ input.t = "Pow" /\ input.base.t = "Add") =>
        /\ pc = "done"
        /\ IF input.exponent.t = "Int" /\ input.exponent.v >= 0
              /\ input.exponent.v <= C21_MaxDegree
           THEN C21_Expanded
           ELSE C21_Unexpanded

(***************************************************************************)
(* Expand and Collect keep the value                                       *)
(***************************************************************************)
\* the bindings the values are compared at: x = 5 of the example among them
C22_Bindings ==
    Bindings \cup {[v \in VarNames |-> IF v = "x" THEN RInt(5) ELSE RInt(1)]}

\* e evaluates, at every binding at which the input of the call does, to the
\* value of the input
C22_SameValue(e) ==
    \A b \in C22_Bindings :
        LET Same(before, after) ==
                before.k = "ok" =>
                    (after.k = "ok" /\ before.n * after.d = after.n * before.d)
        IN Same(Eval(input, b), Eval(e, b))

\* the call of Expand multiplied a power of a sum out or distributed a product
\* over a sum
C22_Expands(e, r) ==
    /\ e.t \in {"Pow", "Mul"}
    /\ r.t = "Add"
    /\ r # e

\* C22: whenever Expand expands a power of a sum or distributes a product over
\* sums, the expanded form and the Collect of the expanded form evaluate at
\* every binding to the same value as the unexpanded expression
C22_ExpandKeepsValue ==
    /\ (pc # "idle" /\ op \in {"Expand", "expand.Expand"} /\ C22_Expands(input, result))
           => (pc = "done" /\ C22_SameValue(result))
    /\ (pc # "idle" /\ op \in {"Collect(Expand)", "Collect(expand.Expand)"}
        /\ C22_Expands(input, prev))
           => (pc = "done" /\ C22_SameValue(result))

\* Collect(Expand((x+1)^2)) evaluates to 36 at x = 5
C22_RoundTrip ==
    /\ pc = "done"
    /\ op \in {"Collect(Expand)", "Collect(expand.Expand)"}
    /\ input = NewPow(NewAdd(<<X, NewInt(1)>>), NewInt(2))
    /\ Eval(result, [v \in VarNames |-> RInt(5)]) = EvOk(RInt(36))

(***************************************************************************)
(* Normalize gives one form to every order of the children                 *)
(***************************************************************************)
\* are the lists s and t rearrangements of one another
C23_Permutation(s, t) ==
    /\ Len(s) = Len(t)
    /\ \E k \in 0..(Factorial(Len(s)) - 1) : Permute(s, k) = t

\* C23: for two sums, or two products, whose child lists are permutations of
\* one another, Normalize returns results that render to the same string and
\* Equal reports them equal; and Normalize applied to what Normalize returned
\* renders to the same string as what it returned
C23_OrderIndependent ==
    /\ (pc # "idle" /\ op = "Equal" /\ input.t = current.t /\ input.t \in {"Add", "Mul"}
        /\ C23_Permutation(Children(input), Children(current)))
           => /\ pc = "done"
              /\ result.v
              /\ String(Normalize(input)) = String(Normalize(current))
    /\ (pc # "idle" /\ op = "Normalize" /\ again) =>
           (pc = "done" /\ String(result) = String(prev))

(***************************************************************************)
(* The domains of ln, log, arcsin and arccos                               *)
(***************************************************************************)
\* the call evaluated a function of one argument whose value a is a number
\* or an infinity, and C24_Holds(a) is what the claim says of the outcome
C24_OneArgument(names) ==
    /\ pc # "idle"
    /\ op = "Eval"
    /\ input.t = "Func"
    /\ input.name \in names
    /\ Len(input.args) = 1
    /\ Eval(input.args[1], vars).k \in {"ok", "inf"}

\* C24: Eval of ln, and of log with one argument, returns an error whenever
\* the argument evaluates to a value <= 0 and a value otherwise, ln(1) being
\* exactly 0; Eval of arcsin and arccos returns an error exactly when the
\* argument lies outside [-1, 1]
C24_DomainErrors ==
    LET Log(a) ==
            /\ pc = "done"
            /\ IF EvSign(a) <= 0 THEN value.k = "err" ELSE value.k \in {"ok", "inf", "approx"}
            /\ (input.name = "ln" /\ a = EvOk(RInt(1))) => value = EvOk(RInt(0))
        Arc(a) ==
            /\ pc = "done"
            /\ value.k = "err" <=> (a.k = "inf" \/ Abs(a.n) > Abs(a.d))
    IN /\ C24_OneArgument({"ln", "log"}) => Log(Eval(input.args[1], vars))
       /\ C24_OneArgument({"arcsin", "arccos"}) => Arc(Eval(input.args[1], vars))

(***************************************************************************)
(* The plus signs of a rendered sum                                        *)
(***************************************************************************)
\* the renderings parts of the terms of a sum put one after the other: the
\* first one bare, each later one after a plus sign, which is left out
\* before a part that starts with a minus sign when signed is TRUE
RECURSIVE C25_Joined(_, _, _)
C25_Joined(parts, i, signed) ==
    IF i > Len(parts) THEN <<>>
    ELSE (IF i = 1 \/ (signed /\ Len(parts[i]) > 0 /\ parts[i][1] = 45)
          THEN parts[i] ELSE <<43>> \o parts[i])
         \o C25_Joined(parts, i + 1, signed)

\* the call rendered a sum of two or more terms
C25_SumRendered(name) ==
    /\ pc = "done"
    /\ op = name
    /\ input.t = "Add"
    /\ Len(input.terms) >= 2

\* the statement as first made: in the String and in the LaTeX rendering of a
\* sum the first term is bare and each later term follows a plus sign,
\* unless its own rendering starts with a minus sign
C25_SignedBoth ==
    /\ C25_SumRendered("String") =>
           result.bytes = C25_Joined([i \in 1..Len(input.terms) |-> String(input.terms[i])],
                                     1, TRUE)
    /\ C25_SumRendered("LaTeX") =>
           result.bytes = C25_Joined([i \in 1..Len(input.terms) |-> LaTeX(input.terms[i])],
                                     1, TRUE)

\* C25: in the LaTeX rendering of a sum the first term is bare and each later
\* term follows a plus sign, unless its own rendering starts with a minus
\* sign; in the String rendering every later term follows a plus sign, also
\* one whose rendering starts with a minus sign
C25_PlusSigns ==
    /\ C25_SumRendered("String") =>
           result.bytes = C25_Joined([i \in 1..Len(input.terms) |-> String(input.terms[i])],
                                     1, FALSE)
    /\ C25_SumRendered("LaTeX") =>
           result.bytes = C25_Joined([i \in 1..Len(input.terms) |-> LaTeX(input.terms[i])],
                                     1, TRUE)

\* x + (-1) rendered as x+-1 by String, or as x-1 by LaTeX
C25_MinusOne ==
    /\ pc = "done"
    /\ input = NewAdd(<<X, NewInt(0 - 1)>>)
    /\ \/ op = "String" /\ result.bytes = <<120, 43, 45, 49>>
       \/ op = "LaTeX" /\ result.bytes = <<120, 45, 49>>

(***************************************************************************)
(* What Expr.Simplify leaves behind                                        *)
(***************************************************************************)
\* a numeric leaf of value v
C26_IsNumber(e, v) == isNumeric(e) /\ ~HasNil(e) /\ NumVal(e) = RInt(v)

\* a term without its numeric factors
C26_Core(t) ==
    LET NotNumeric(f) == ~isNumeric(f)
    IN IF isNumeric(t) THEN <<>>
       ELSE IF t.t = "Mul" THEN SelectSeq(t.factors, NotNumeric)
       ELSE <<t>>

\* no sum of the tree holds a zero term or two like terms, and no product
\* holds a factor one or a factor zero
RECURSIVE C26_Reduced(_, _)
C26_Reduced(e, likeTerms) ==
    CASE e.t = "Add" ->
           /\ \A i \in 1..Len(e.terms) :
                  ~C26_IsNumber(e.terms[i], 0) /\ C26_Reduced(e.terms[i], likeTerms)
           /\ likeTerms =>
                  \A i, j \in 1..Len(e.terms) :
                      i # j => C26_Core(e.terms[i]) # C26_Core(e.terms[j])
      [] e.t = "Mul" ->
           \A i \in 1..Len(e.factors) :
               /\ ~C26_IsNumber(e.factors[i], 0)
               /\ ~C26_IsNumber(e.factors[i], 1)
               /\ C26_Reduced(e.factors[i], likeTerms)
      [] e.t = "Pow" -> C26_Reduced(e.base, likeTerms) /\ C26_Reduced(e.exponent, likeTerms)
      [] e.t = "Func" -> \A i \in 1..Len(e.args) : C26_Reduced(e.args[i], likeTerms)
      [] e.t = "Eq" -> C26_Reduced(e.left, likeTerms) /\ C26_Reduced(e.right, likeTerms)
      [] OTHER -> TRUE

\* C26: Expr.Simplify() removes the additive zeros and the multiplicative
\* ones, collapses a product that holds a zero factor, and combines like
\* terms: x + 0 + x*1 + 0*y and x + 0 + x*1 both simplify to 2*x
C26_MethodSimplifies ==
    (pc = "done" /\ op = "Expr.Simplify") =>
        /\ C26_Reduced(result, TRUE)
        /\ input \in {TutorialSum, TipSum} => String(result) = <<50, 42, 120>>

(***************************************************************************)
(* Common factors taken out of a sum                                       *)
(***************************************************************************)
\* the factors of a term
C27_Factors(t) == IF t.t = "Mul" THEN t.factors ELSE <<t>>

\* the factors of the first term that render like a factor of every other
\* term
C27_Common(terms) ==
    LET InAll(f) == \A i \in 2..Len(terms) :
                        \E j \in 1..Len(C27_Factors(terms[i])) :
                            String(C27_Factors(terms[i])[j]) = String(f)
    IN SelectSeq(C27_Factors(terms[1]), InAll)

\* the factors fs without the first one that renders like f
RECURSIVE C27_Without(_, _)
C27_Without(fs, f) ==
    IF fs = <<>> THEN <<>>
    ELSE IF String(fs[1]) = String(f) THEN Tail(fs)
    ELSE <<fs[1]>> \o C27_Without(Tail(fs), f)

\* the factors fs with each factor of common removed once
RECURSIVE C27_WithoutAll(_, _)
C27_WithoutAll(fs, common) ==
    IF common = <<>> THEN fs
    ELSE C27_WithoutAll(C27_Without(fs, common[1]), Tail(common))

\* the product of the factors fs
C27_Product(fs) ==
    IF Len(fs) = 0 THEN NewInt(1) ELSE IF Len(fs) = 1 THEN fs[1] ELSE MulOf(fs)

\* the call factors a sum of two or more terms that have factors in common,
\* no two of them alike and not the factor 1 alone
C27_HasCommon ==
    /\ pc # "idle"
    /\ op = "Factor"
    /\ input.t = "Add"
    /\ ~HasNil(input)
    /\ Len(input.terms) >= 2
    /\ LET common == C27_Common(input.terms)
       IN /\ common # <<>>
          /\ \A i, j \in 1..Len(common) : i # j => String(common[i]) # String(common[j])
          /\ ~(Len(common) = 1 /\ isOne(common[1]))

\* C27: Factor of a sum whose terms have one or more factors in common
\* returns the product of the common factors times the sum of the terms with
\* each common factor removed once, and the result evaluates to the value of
\* the sum, also when two or more factors are common
C27_CommonFactors ==
    C27_HasCommon =>
        /\ pc = "done"
        /\ result = MulOf(<<C27_Product(C27_Common(input.terms)),
                            NewAdd([i \in 1..Len(input.terms) |->
                                C27_Product(C27_WithoutAll(C27_Factors(input.terms[i]),
                                                           C27_Common(input.terms)))])>>)
        /\ \A b \in Bindings :
               LET before == Eval(input, b)
                   after == Eval(result, b)
               IN before.k = "ok" => (after.k = "ok" /\ before.n * after.d = after.n * before.d)

(***************************************************************************)
(* The value of what Collect returns                                       *)
(***************************************************************************)
\* C28: Collect returns, without a crash, an expression that evaluates to the
\* number its argument evaluates to, at every binding under which both
\* evaluate: so for a Rational leaf (n/1 gives the integer n), for a power of
\* a power, and for coefficient sums of any magnitude
C28_CollectKeepsValue ==
    (pc # "idle" /\ op = "Collect" /\ ~again) =>
        /\ pc = "done"
        /\ \A b \in Bindings :
               LET before == Eval(input, b)
                   after == Eval(result, b)
               IN /\ before.k = "ok" => after.k # "panic"
                  /\ (before.k = "ok" /\ after.k = "ok")
                         => before.n * after.d = after.n * before.d

(***************************************************************************)
(* The rounds of Simplify                                                  *)
(***************************************************************************)
\* one round on cur: Factor, then Collect; Expand and Collect again only
\* when Factor and Collect left cur as it was
C29_Round(cur, s1, s2) ==
    LET step1 == Factor(cur, s1)
        collected == Collect(step1, s2)
        step2 == IF Equal(step1, collected) = "true" THEN step1 ELSE collected
        step3 == Expand(step2)
    IN IF Equal(cur, step2) = "true"
       THEN IF Equal(step2, step3) = "true" THEN step2 ELSE Collect(step3, s2)
       ELSE step2

\* a step of a Simplify call that neither aborts nor leaves the call
C29_Step ==
    (pc = "loop" /\ op = "Simplify" /\ pc' \in {"loop", "done"}) =>
        LET out == IF pc' = "done" THEN result' ELSE current'
            round == \E s1, s2 \in Seeds : out = C29_Round(current, s1, s2)
        IN /\ opts.Once =>
                  /\ iteration = 0
                  /\ pc' = "done"
                  /\ round
           /\ ~opts.Once =>
                  \/ round /\ (String(out) = String(current) => pc' = "done")
                  \/ iteration = opts.MaxIterations /\ pc' = "done" /\ out = current

\* C29: every round of Simplify applies Factor and then Collect, and Expand
\* followed by Collect only when Factor and Collect changed nothing; the call
\* returns right after the first round that leaves the text of the expression
\* unchanged, and with Once it returns the result of exactly one round,
\* whatever MaxIterations is
C29_Rounds == [][C29_Step]_vars_

(***************************************************************************)
(* The names Func.Eval knows                                               *)
(***************************************************************************)
\* the evaluation failed with the error of the default case of Func.Eval
C30_Unsupported(v) == v.k = "err" /\ "why" \in DOMAIN v /\ v.why = "unsupported"

\* C30: Func.Eval knows every function the README lists and every name of
\* the derivative table: Eval of such a function of one argument, and Eval
\* of an expression that Derivative returned, never fails with the error
\* for an unsupported function
C30_NamesEvaluated ==
    (pc # "idle" /\ op = "Eval") =>
        /\ (input.t = "Func" /\ Len(input.args) = 1
            /\ input.name \in DocumentedNames \cup TableNames)
               => ~C30_Unsupported(value)
        /\ input \in DerivativeResults => ~C30_Unsupported(value)

=============================================================================
